---- MODULE Spec2Model ----
(***************************************************************************)
(* A model of the Astarte device runtime over its MQTT transport: the      *)
(* interface catalog, the property store, the fresh-session handshake,     *)
(* purge-properties reconciliation, topic parsing and the send and         *)
(* receive pipelines.                                                      *)
(*                                                                         *)
(* Strings are sequences of one-character strings, so that prefixes,       *)
(* concatenation and splitting are computed as the code computes them.     *)
(***************************************************************************)
EXTENDS Integers, Sequences, FiniteSets, TLC

VARIABLES
    interfaces,              \* SharedDevice.interfaces: the catalog (a set of Interface records, one per name)
    store,                   \* SharedDevice.store: the stored properties (a set of rows, one per (interface, path))
    pc,                      \* handle_events: "running", or "ended" once next_event returned an error
    tasks,                   \* the event tasks handle_events spawned that have not run yet
    rx,                      \* the consumer channel: the items sent on tx and not yet received
    PURGE_PROPERTIES_TOPIC,  \* next_event's static OnceCell<String> (<<>> while not initialised)
    CLIENT_ID,               \* next_event's static OnceCell<String> (<<>> while not initialised)
    last,                    \* the operation the last step performed, with its inputs
    out,                     \* the calls the last step made on the MQTT client (and its load_all_props)
    res,                     \* the result the last step returned: "ok" or the error
    pre,                     \* the store as it was before the last step
    repeat,                  \* whether the last step is a send or unset right after a successful send on the same property
    loading,                 \* the load_prop that read a row of another major version and has not deleted it yet
    closed,                  \* whether the consumer dropped the receiver of the channel
    eventloop,               \* SharedMqtt.eventloop: the task that holds the Mutex (NoHolder when free)
    stream,                  \* SharedGrpc.stream: the task that holds the Mutex (NoHolder when free)
    client,                  \* SharedGrpc.client: the task that holds the Mutex (NoHolder when free)
    at,                      \* where each task of the connection is in its function
    retries,                 \* the errors of the polls that failed since the event loop last returned an event
    debug_assertions,        \* cfg(debug_assertions): whether the library is built with debug assertions
    node,                    \* the message hub's side of the gRPC connection: the node is "attached" or "detached"
    streaming,               \* the Streaming held in SharedGrpc.stream: the task whose attach returned it, and its parity
    readers,                 \* SharedDevice.interfaces: the tasks that hold a read guard of the RwLock
    steps                    \* packets polled and API calls made so far

vars == <<interfaces, store, pc, tasks, rx, PURGE_PROPERTIES_TOPIC, CLIENT_ID,
          last, out, res, pre, repeat, loading, closed, eventloop, stream, client, at,
          retries, debug_assertions, node, streaming, readers, steps>>

\* the locks of the connection and the positions of the tasks that take them
conn_vars == <<eventloop, stream, client, at, retries>>

\* the build profile, the gRPC stream and the read guards of the catalog, which the
\* calls that run one at a time leave alone
env_vars == <<debug_assertions, node, streaming, readers>>

(***************************************************************************)
(* Bounds of the model.                                                    *)
(***************************************************************************)
MaxSteps == 3
MaxTasks == 2
ChannelCapacity == 1

(***************************************************************************)
(* Strings.                                                                *)
(***************************************************************************)
Slash == <<"/">>

RECURSIVE StartsWith(_, _)
StartsWith(s, p) ==
    IF p = <<>> THEN TRUE
    ELSE IF s = <<>> THEN FALSE
    ELSE Head(s) = Head(p) /\ StartsWith(Tail(s), Tail(p))

\* str::strip_prefix: the rest of s after p, or "none" when s does not start with p
NoneStr == <<"<none>">>
strip_prefix(s, p) ==
    IF s # NoneStr /\ StartsWith(s, p) THEN SubSeq(s, Len(p) + 1, Len(s)) ELSE NoneStr

\* str::find: the index (from 0) of the first c in s, or -1
RECURSIVE find(_, _)
find(s, c) ==
    IF s = <<>> THEN -1
    ELSE IF Head(s) = c THEN 0
    ELSE LET r == find(Tail(s), c) IN IF r = -1 THEN -1 ELSE r + 1

\* str::split(c), collected into a set
RECURSIVE split(_, _)
split(s, c) ==
    LET i == find(s, c) IN
    IF i = -1 THEN {s}
    ELSE {SubSeq(s, 1, i)} \cup split(SubSeq(s, i + 2, Len(s)), c)

\* the sequences that enumerate the set S once each, in any order
Orders(S) ==
    {q \in [1..Cardinality(S) -> S] : \A i, j \in 1..Cardinality(S) : i # j => q[i] # q[j]}

realm == <<"r">>
device_id == <<"d">>

\* impl Display for ClientId
ClientId == realm \o Slash \o device_id

S_control == <<"c","o","n","t","r","o","l">>
S_consumer == <<"c","o","n","s","u","m","e","r">>
S_properties == <<"p","r","o","p","e","r","t","i","e","s">>
S_emptyCache == <<"e","m","p","t","y","C","a","c","h","e">>
S_another == <<"a","n","o","t","h","e","r">>

\* "control/consumer/properties"
ControlConsumerProperties == S_control \o Slash \o S_consumer \o Slash \o S_properties

(***************************************************************************)
(* Values (AstarteType).  NoValue is the None of an OptStoredProp.         *)
(***************************************************************************)
V1 == [ty |-> "integer", val |-> 1]
V2 == [ty |-> "integer", val |-> 2]
Unset == [ty |-> "unset", val |-> 0]
NoValue == [ty |-> "none", val |-> 0]
VStr == [ty |-> "string", val |-> 1]

\* an aggregate (HashMap<String, AstarteType>): a set of <<key, value>>, one per key
Ka == <<"a">>
Kb == <<"b">>
Kx == <<"x">>

Obj(fields) == [ty |-> "object", val |-> 0, fields |-> fields]

ObjAB == Obj({<<Ka, V1>>, <<Kb, V2>>})
ObjA == Obj({<<Ka, V1>>})
ObjABx == Obj({<<Ka, V1>>, <<Kb, V2>>, <<Kx, V1>>})
ObjAs == Obj({<<Ka, V1>>, <<Kb, VStr>>})

(***************************************************************************)
(* Interfaces.                                                             *)
(***************************************************************************)
NameA == <<"A">>
NameB == <<"B">>
NameS == <<"S">>
NameO == <<"O">>

\* "/%{i}/n", "/e", "/v"
EndpointA == <<"/","%","{","i","}","/","n">>
EndpointB == <<"/","e">>
EndpointS == <<"/","v">>
EndpointOa == <<"/","%","{","i","}","/","a">>
EndpointOb == <<"/","%","{","i","}","/","b">>

Path1n == <<"/","1","/","n">>
Path2n == <<"/","2","/","n">>
PathE == <<"/","e">>
PathV == <<"/","v">>
Path1 == <<"/","1">>

Mapping(endpoint, allow_unset) ==
    [endpoint |-> endpoint, mapping_type |-> "integer", allow_unset |-> allow_unset,
     explicit_timestamp |-> FALSE]

Interface(name, major, minor, ownership, kind, mapping) ==
    [interface_name |-> name, version_major |-> major, version_minor |-> minor,
     ownership |-> ownership, kind |-> kind, aggregation |-> "Individual",
     mappings |-> {mapping}]

\* a device-owned property interface at two major versions, a server-owned
\* property interface and a server-owned datastream
IfaceA1 == Interface(NameA, 1, 0, "Device", "Property", Mapping(EndpointA, TRUE))
IfaceA2 == Interface(NameA, 2, 0, "Device", "Property", Mapping(EndpointA, TRUE))
IfaceB == Interface(NameB, 1, 0, "Server", "Property", Mapping(EndpointB, FALSE))
IfaceS == Interface(NameS, 0, 1, "Server", "Datastream", Mapping(EndpointS, FALSE))

\* a device-owned datastream with object aggregation
IfaceO ==
    [interface_name |-> NameO, version_major |-> 1, version_minor |-> 0,
     ownership |-> "Device", kind |-> "Datastream", aggregation |-> "Object",
     mappings |-> {Mapping(EndpointOa, FALSE), Mapping(EndpointOb, FALSE)}]

\* a device-owned datastream whose mapping has explicit_timestamp
NameT == <<"T">>
EndpointT == <<"/","t">>
PathT == <<"/","t">>
IfaceT ==
    Interface(NameT, 1, 0, "Device", "Datastream",
              [Mapping(EndpointT, FALSE) EXCEPT !.explicit_timestamp = TRUE])

AllInterfaces == {IfaceA1, IfaceA2, IfaceB, IfaceS}
Names == {NameA, NameB, NameS}

(***************************************************************************)
(* Mapping paths and endpoint templates.                                   *)
(***************************************************************************)
\* the levels of a path that starts with "/": the text between the slashes, in order
RECURSIVE Levels(_)
Levels(s) ==
    IF s = <<>> THEN <<>>
    ELSE LET rest == Tail(s)
             i == find(rest, "/")
         IN IF i = -1 THEN <<rest>>
            ELSE <<SubSeq(rest, 1, i)>> \o Levels(SubSeq(rest, i + 1, Len(rest)))

\* MappingPath::try_from: not empty, starts with "/", no empty level
PathValid(s) ==
    /\ s # <<>>
    /\ Head(s) = "/"
    /\ \A k \in 1..Len(Levels(s)) : Levels(s)[k] # <<>>

\* a level of an endpoint template of the form %{name}
IsParameter(level) ==
    /\ Len(level) >= 3
    /\ level[1] = "%"
    /\ level[2] = "{"
    /\ level[Len(level)] = "}"

\* the endpoint template matches the concrete path level by level
EndpointMatches(endpoint, path) ==
    LET e == Levels(endpoint)
        p == Levels(path)
    IN /\ Len(e) = Len(p)
       /\ \A k \in 1..Len(e) : IF IsParameter(e[k]) THEN p[k] # <<>> ELSE e[k] = p[k]

\* Interface::as_mapping_ref: the mappings of the interface that match the path (none or one)
as_mapping_ref(interface, path) ==
    {m \in interface.mappings : EndpointMatches(m.endpoint, path)}

\* Interface::as_object_ref: the interface when its aggregation is Object (none or one)
as_object_ref(interface) == IF interface.aggregation = "Object" THEN {interface} ELSE {}

\* the mappings of the object that the key names at the path (none or one)
ObjectMapping(object, path, key) ==
    {m \in object.mappings : EndpointMatches(m.endpoint, path \o Slash \o key)}

(***************************************************************************)
(* The interface catalog (Interfaces).                                     *)
(***************************************************************************)
\* Interfaces::get, as the set of the interfaces of that name (none or one)
Get(cat, name) == {i \in cat : i.interface_name = name}

\* Interfaces::get_property: the interface of that name when it is a property interface
get_property(cat, name) == {i \in Get(cat, name) : i.kind = "Property"}

\* the version-change rules of Interfaces::add for an interface replacing prev
VersionChangeOk(prev, new) ==
    \/ new.version_major > prev.version_major
    \/ /\ new.version_major = prev.version_major
       /\ new.version_minor >= prev.version_minor

\* Interfaces::add: the catalog with the interface installed, when the rules allow it
AddAllowed(cat, interface) ==
    \A prev \in Get(cat, interface.interface_name) : VersionChangeOk(prev, interface)

CatalogAdd(cat, interface) ==
    (cat \ Get(cat, interface.interface_name)) \cup {interface}

\* Interfaces::remove
CatalogRemove(cat, name) == cat \ Get(cat, name)

Alphabet == <<"0", "1", "2", "3", "4", "5", "6", "7", "8", "9", ":", ";", "A", "B", "O", "S", "T">>

CharRank(c) == CHOOSE k \in 1..Len(Alphabet) : Alphabet[k] = c

RECURSIVE StrLess(_, _)
StrLess(a, b) ==
    IF b = <<>> THEN FALSE
    ELSE IF a = <<>> THEN TRUE
    ELSE IF Head(a) = Head(b) THEN StrLess(Tail(a), Tail(b))
    ELSE CharRank(Head(a)) < CharRank(Head(b))

Digit(n) == <<Alphabet[n + 1]>>

\* "name:major:minor"
IntrospectionEntry(i) ==
    i.interface_name \o <<":">> \o Digit(i.version_major) \o <<":">> \o Digit(i.version_minor)

\* the entries of the catalog in increasing order, joined by ";"
RECURSIVE JoinSorted(_)
JoinSorted(S) ==
    IF S = {} THEN <<>>
    ELSE LET m == CHOOSE x \in S : \A y \in S \ {x} : StrLess(x, y)
         IN IF S = {m} THEN m ELSE m \o <<";">> \o JoinSorted(S \ {m})

\* Interfaces::get_introspection_string
get_introspection_string(cat) == JoinSorted({IntrospectionEntry(i) : i \in cat})

(***************************************************************************)
(* The property store.                                                     *)
(***************************************************************************)
StoredProp(interface, path, value, major, ownership) ==
    [interface |-> interface, path |-> path, value |-> value,
     interface_major |-> major, ownership |-> ownership]

Row(st, interface, path) == {r \in st : r.interface = interface /\ r.path = path}

\* an insert that leaves the row stored before in place
store_prop_insert(st, prop) == st \cup {prop}

\* PropertyStore::store_prop: an upsert keyed by (interface, path)
store_prop(st, prop) == (st \ Row(st, prop.interface, prop.path)) \cup {prop}

\* PropertyStore::delete_prop
delete_prop(st, interface, path) == st \ Row(st, interface, path)

\* a read that returns the stored value whatever major version it was stored under
load_prop_read_any_major(st, interface, path, interface_major) ==
    LET row == Row(st, interface, path) IN
    IF row = {} THEN [value |-> NoValue, mismatch |-> FALSE]
    ELSE [value |-> (CHOOSE x \in row : TRUE).value, mismatch |-> FALSE]

\* SqliteStore::load_prop up to its delete: the query of the row, and whether
\* the row was stored under another major version
load_prop_read(st, interface, path, interface_major) ==
    LET row == Row(st, interface, path) IN
    IF row = {} THEN [value |-> NoValue, mismatch |-> FALSE]
    ELSE LET r == CHOOSE x \in row : TRUE IN
         IF r.interface_major # interface_major
         THEN [value |-> NoValue, mismatch |-> TRUE]
         ELSE [value |-> r.value, mismatch |-> FALSE]

\* PropertyStore::load_prop: the value (NoValue for None) and the store it leaves,
\* the row being deleted when it was stored under another major version
load_prop(st, interface, path, interface_major) ==
    LET read == load_prop_read(st, interface, path, interface_major) IN
    IF read.mismatch
    THEN [value |-> NoValue, store |-> delete_prop(st, interface, path)]
    ELSE [value |-> read.value, store |-> st]

\* an unset that deletes the row
unset_prop_deletes(st, interface, path) == st \ Row(st, interface, path)

\* PropertyStore::unset_prop: the row is kept without a value
unset_prop(st, interface, path) ==
    (st \ Row(st, interface, path))
        \cup {[r EXCEPT !.value = NoValue] : r \in Row(st, interface, path)}

\* a row that holds no value: unset, and kept until the unset is acknowledged
IsTombstone(r) == r.value \in {Unset, NoValue}

\* PropertyStore::load_all_props: every stored property that has a value
load_all_props(st) == {r \in st : ~IsTombstone(r)}

\* PropertyStore::device_props and server_props
device_props(st) == {r \in load_all_props(st) : r.ownership = "Device"}

server_props(st) == {r \in load_all_props(st) : r.ownership = "Server"}

\* PropertyStore::device_props_with_unset: the device properties, the unset ones included
device_props_with_unset(st) == {r \in st : r.ownership = "Device"}

\* PropertyStore::clear
clear(st) == {}

\* PropertyStore::interface_props: the properties of the interface that have a value
interface_props(st, interface) == {r \in load_all_props(st) : r.interface = interface}

\* PropertyStore::delete_interface
delete_interface(st, interface) == {r \in st : r.interface # interface}

(***************************************************************************)
(* The store of the gRPC transport (GrpcStore), over the local store: the  *)
(* message hub holds the device-owned properties.                          *)
(***************************************************************************)
\* a store_prop that does not look at the ownership
grpc_store_prop_any_owner(st, prop) == store_prop(st, prop)

\* GrpcStore::store_prop
grpc_store_prop(st, prop) ==
    IF prop.ownership = "Device" THEN st ELSE store_prop(st, prop)

\* GrpcStore::unset_prop
grpc_unset_prop(st, interface, path, ownership) ==
    IF ownership = "Device" THEN st ELSE unset_prop(st, interface, path)

\* GrpcStore::delete_prop
grpc_delete_prop(st, interface, path, ownership) ==
    IF ownership = "Device" THEN st ELSE delete_prop(st, interface, path)

\* GrpcStore::delete_interface
grpc_delete_interface(st, interface, ownership) ==
    IF ownership = "Device" THEN st ELSE delete_interface(st, interface)

(***************************************************************************)
(* Payloads.  A payload is the bytes of a publish: empty, a BSON envelope  *)
(* {v, t}, plain text, the purge-properties framing (a 4 byte length and   *)
(* zlib data), or bytes that are none of these.                            *)
(***************************************************************************)
Bytes(kind, v, text) == [kind |-> kind, v |-> v, text |-> text]

EmptyPayload == Bytes("empty", NoValue, <<>>)
Bson(v) == Bytes("bson", v, <<>>)
Text(s) == Bytes("text", NoValue, s)
Deflated(s) == Bytes("zlib", NoValue, s)
DeflatedNotUtf8 == Bytes("zlib_not_utf8", NoValue, <<>>)
ShortPayload == Bytes("short", NoValue, <<>>)

\* Payload::new(value).to_vec()
PayloadToVec(value) == Bson(value)

\* payload::serialize_individual: the bytes, or the error
serialize_individual(interface, mapping, value) ==
    IF value = Unset
    THEN IF interface.kind = "Property" /\ mapping.allow_unset
         THEN [err |-> "ok", bytes |-> EmptyPayload]
         ELSE [err |-> "Payload(Unset)", bytes |-> EmptyPayload]
    ELSE IF value.ty # mapping.mapping_type
    THEN [err |-> "Payload(Type)", bytes |-> EmptyPayload]
    ELSE [err |-> "ok", bytes |-> PayloadToVec(value)]

\* payload::deserialize_individual: the value, or the error
deserialize_individual(interface, mapping, payload) ==
    IF payload.kind = "empty"
    THEN IF interface.kind = "Property" /\ mapping.allow_unset
         THEN [err |-> "ok", value |-> Unset]
         ELSE [err |-> "Payload(Unset)", value |-> NoValue]
    ELSE IF payload.kind # "bson"
    THEN [err |-> "Payload(Decode)", value |-> NoValue]
    ELSE IF payload.v.ty # mapping.mapping_type
    THEN [err |-> "Payload(Type)", value |-> NoValue]
    ELSE [err |-> "ok", value |-> payload.v]

\* the check of an aggregate against the object at the path: the keys are the
\* names of the mappings of the object, each once, with values of the mapping types
ObjectError(object, path, fields) ==
    IF \E f \in fields : ObjectMapping(object, path, f[1]) = {} THEN "Payload(UnknownKey)"
    ELSE IF \E m \in object.mappings : ~\E f \in fields : m \in ObjectMapping(object, path, f[1])
    THEN "Payload(MissingKey)"
    ELSE IF \E f \in fields : \E m \in ObjectMapping(object, path, f[1]) :
                f[2].ty # m.mapping_type
    THEN "Payload(Type)"
    ELSE "ok"

\* payload::serialize_object: the bytes, or the error
serialize_object(object, path, data) ==
    IF ObjectError(object, path, data.fields) # "ok"
    THEN [err |-> ObjectError(object, path, data.fields), bytes |-> EmptyPayload]
    ELSE [err |-> "ok", bytes |-> PayloadToVec(data)]

\* payload::deserialize_object: the aggregate, or the error
deserialize_object(object, path, payload) ==
    IF payload.kind # "bson" THEN [err |-> "Payload(Decode)", value |-> NoValue]
    ELSE IF payload.v.ty # "object" THEN [err |-> "Payload(Type)", value |-> NoValue]
    ELSE IF ObjectError(object, path, payload.v.fields) # "ok"
    THEN [err |-> ObjectError(object, path, payload.v.fields), value |-> NoValue]
    ELSE [err |-> "ok", value |-> payload.v]

\* properties::extract_set_properties: the set of "<interface><path>" entries, or the error
extract_set_properties(bdata) ==
    IF bdata.kind \in {"empty", "short"}
    THEN [err |-> "Properties(PayloadTooShort)", paths |-> {}]
    ELSE IF bdata.kind = "zlib_not_utf8"
    THEN [err |-> "Properties(Utf8)", paths |-> {}]
    ELSE IF bdata.kind # "zlib"
    THEN [err |-> "Properties(Decompress)", paths |-> {}]
    ELSE [err |-> "ok", paths |-> split(bdata.text, ";")]

(***************************************************************************)
(* Calls on the MQTT client (AsyncClient), as the last step made them.     *)
(***************************************************************************)
Call(op, topic, payload) == [op |-> op, topic |-> topic, payload |-> payload, ok |-> TRUE]

Subscribe(topic) == Call("subscribe", topic, EmptyPayload)
Unsubscribe(topic) == Call("unsubscribe", topic, EmptyPayload)
Publish(topic, payload) == Call("publish", topic, payload)

\* the store being read as a whole, recorded with the client calls of the step
LoadAllPropsCall == Call("load_all_props", <<>>, EmptyPayload)

\* The calls of `calls` that are made when the fail-th one returns an error
\* (fail = 0: none does): every call waits for the one before it, and `?`
\* returns at the first error.
Attempt(callSeq, fail) ==
    IF fail = 0 \/ fail > Len(callSeq) THEN callSeq
    ELSE [k \in 1..fail |-> IF k = fail THEN [callSeq[k] EXCEPT !.ok = FALSE] ELSE callSeq[k]]

Failed(callSeq, fail) == fail # 0 /\ fail <= Len(callSeq)

\* the calls made on the client, without the store reads
ClientCalls(callSeq) == SelectSeq(callSeq, LAMBDA c : c.op # "load_all_props")

(***************************************************************************)
(* The fresh-session handshake (Mqtt::connack).                            *)
(***************************************************************************)
PurgeTopic == ClientId \o Slash \o ControlConsumerProperties
EmptyCacheTopic == ClientId \o Slash \o S_control \o Slash \o S_emptyCache
InterfaceFilter(name) == ClientId \o Slash \o name \o <<"/", "#">>
DataTopic(name, path) == ClientId \o Slash \o name \o path

\* a filter that forgets the major version the property was stored under
filter_device_properties_any_major(properties, cat) ==
    {prop \in properties :
        \E interface \in get_property(cat, prop.interface) : interface.ownership = "Device"}

\* Introspection::filter_device_properties
filter_device_properties(properties, cat) ==
    {prop \in properties :
        \E interface \in get_property(cat, prop.interface) :
            /\ interface.ownership = "Device"
            /\ interface.version_major = prop.interface_major}

\* Introspection::filter_server_interfaces
filter_server_interfaces(cat) ==
    {interface.interface_name : interface \in {i \in cat : i.ownership = "Server"}}

\* Mqtt::subscribe_server_interfaces
subscribe_server_interfaces(server_interfaces) ==
    <<Subscribe(PurgeTopic)>>
        \o [k \in 1..Len(server_interfaces) |-> Subscribe(InterfaceFilter(server_interfaces[k]))]

\* Registry::send_introspection
send_introspection(introspection) == <<Publish(ClientId, Text(introspection))>>

\* Mqtt::send_emptycache
send_emptycache == <<Publish(EmptyCacheTopic, Text(<<"1">>))>>

\* Mqtt::send_device_properties
send_device_properties(device_properties) ==
    [k \in 1..Len(device_properties) |->
        Publish(DataTopic(device_properties[k].interface, device_properties[k].path),
                PayloadToVec(device_properties[k].value))]

\* a handshake that asks for the cache to be emptied before it sends the introspection
HandshakeCalls_emptycache_first(cat, server_interfaces, device_properties) ==
    subscribe_server_interfaces(server_interfaces)
        \o send_emptycache
        \o send_introspection(get_introspection_string(cat))
        \o send_device_properties(device_properties)

\* The body of Mqtt::connack for a session that is not resumed: the calls in
\* the order the code makes them.  server_interfaces and device_properties are
\* the vectors of Introspection::from_device, in the order the catalog and the
\* store returned them.
HandshakeCalls(cat, server_interfaces, device_properties) ==
    subscribe_server_interfaces(server_interfaces)
        \o send_introspection(get_introspection_string(cat))
        \o send_emptycache
        \o send_device_properties(device_properties)

\* a connack that runs the handshake whether or not the session is resumed
connack_any_session(cat, st, session_present, server_interfaces, device_properties, fail) ==
    LET callSeq == HandshakeCalls(cat, server_interfaces, device_properties)
    IN [out |-> <<LoadAllPropsCall>> \o Attempt(callSeq, fail),
        res |-> IF Failed(callSeq, fail) THEN "ClientError" ELSE "ok"]

\* Mqtt::connack: the calls made and the result, the fail-th client call failing
connack(cat, st, session_present, server_interfaces, device_properties, fail) ==
    IF session_present THEN [out |-> <<>>, res |-> "ok"]
    ELSE LET callSeq == HandshakeCalls(cat, server_interfaces, device_properties)
         IN [out |-> <<LoadAllPropsCall>> \o Attempt(callSeq, fail),
             res |-> IF Failed(callSeq, fail) THEN "ClientError" ELSE "ok"]

(***************************************************************************)
(* Purge-properties reconciliation (Mqtt::purge_properties).               *)
(***************************************************************************)
\* a purge that deletes the listed properties instead of the others
purge_properties_listed(st, bdata) ==
    LET stored_props == load_all_props(st)
        extracted == extract_set_properties(bdata)
    IN IF extracted.err # "ok"
       THEN [store |-> st, out |-> <<LoadAllPropsCall>>, res |-> extracted.err]
       ELSE [store |-> st \ {stored_prop \in stored_props :
                                (stored_prop.interface \o stored_prop.path) \in extracted.paths},
             out |-> <<LoadAllPropsCall>>,
             res |-> "ok"]

\* a purge that deletes before it has decoded the payload
purge_properties_delete_first(st, bdata) ==
    LET stored_props == load_all_props(st)
        extracted == extract_set_properties(bdata)
    IN [store |-> st \ {stored_prop \in stored_props :
                           (stored_prop.interface \o stored_prop.path) \notin extracted.paths},
        out |-> <<LoadAllPropsCall>>,
        res |-> extracted.err]

\* Mqtt::purge_properties: the store it leaves, its read of the store and its result
purge_properties(st, bdata) ==
    LET stored_props == load_all_props(st)
        extracted == extract_set_properties(bdata)
    IN IF extracted.err # "ok"
       THEN [store |-> st, out |-> <<LoadAllPropsCall>>, res |-> extracted.err]
       ELSE [store |-> st \ {stored_prop \in stored_props :
                                (stored_prop.interface \o stored_prop.path) \notin extracted.paths},
             out |-> <<LoadAllPropsCall>>,
             res |-> "ok"]

\* a comparison that never recognises the purge topic
is_purge_never(purge_topic, topic) == FALSE

\* a comparison that takes every topic under the purge topic for it
is_purge_prefix(purge_topic, topic) == StartsWith(topic, purge_topic)

\* next_event: a publish is a purge directive when its topic is the purge topic
is_purge(purge_topic, topic) == purge_topic = topic

(***************************************************************************)
(* Topic parsing (ParsedTopic::try_parse).                                 *)
(***************************************************************************)
Parsed(kind, interface, path) == [kind |-> kind, interface |-> interface, path |-> path]

try_parse(client_id, topic) ==
    IF topic = <<>> THEN Parsed("Empty", <<>>, <<>>)
    ELSE LET rest0 == strip_prefix(strip_prefix(strip_prefix(topic, client_id.realm), Slash),
                                   client_id.device_id)
         IN IF rest0 = NoneStr THEN Parsed("UnknownClientId", <<>>, <<>>)
            ELSE LET rest == strip_prefix(rest0, Slash)
                 IN IF rest = NoneStr THEN Parsed("Malformed", <<>>, <<>>)
                    ELSE IF rest = ControlConsumerProperties
                    THEN Parsed("PurgeProperties", <<>>, <<>>)
                    ELSE LET idx == find(rest, "/")
                         IN IF idx = -1 THEN Parsed("Malformed", <<>>, <<>>)
                            ELSE LET interface == SubSeq(rest, 1, idx)
                                     path == SubSeq(rest, idx + 1, Len(rest))
                                 IN IF interface = <<>> \/ path = <<>>
                                    THEN Parsed("Malformed", <<>>, <<>>)
                                    ELSE Parsed("InterfacePath", interface, path)

(***************************************************************************)
(* The device runtime (AstarteDeviceSdk).                                  *)
(***************************************************************************)
\* a lookup that takes an unset property for one that is not stored
property_unset_is_none(st, interface, mapping, path) ==
    LET loaded == load_prop(st, interface.interface_name, path, interface.version_major)
    IN [value |-> IF loaded.value = Unset THEN NoValue ELSE loaded.value, store |-> loaded.store]

\* a lookup that never finds the property
property_not_stored(st, interface, mapping, path) == [value |-> NoValue, store |-> st]

\* AstarteDeviceSdk::property: the stored value of a property mapping (NoValue
\* for None) and the store it leaves
property(st, interface, mapping, path) ==
    LET loaded == load_prop(st, interface.interface_name, path, interface.version_major)
        value == loaded.value
    IN IF value = Unset /\ ~mapping.allow_unset
       THEN [value |-> NoValue,
             store |-> delete_prop(loaded.store, interface.interface_name, path)]
       ELSE IF value = Unset THEN [value |-> Unset, store |-> loaded.store]
       ELSE IF value # NoValue /\ value.ty # mapping.mapping_type
       THEN [value |-> NoValue,
             store |-> delete_prop(loaded.store, interface.interface_name, path)]
       ELSE [value |-> value, store |-> loaded.store]

\* Mqtt::send_individual: the publish of a serialized value
send_individual(interface, mapping, bytes) ==
    <<Publish(DataTopic(interface.interface_name, mapping.endpoint), bytes)>>

\* PropertyRegistry::get_property: the value (NoValue for None), the store it
\* leaves and its result
PropertyRegistry_get_property(cat, st, interface_name, path) ==
    IF ~PathValid(path) THEN [value |-> NoValue, store |-> st, res |-> "InvalidEndpoint"]
    ELSE IF get_property(cat, interface_name) = {}
    THEN [value |-> NoValue, store |-> st, res |-> "MissingInterface"]
    ELSE LET interface == CHOOSE i \in get_property(cat, interface_name) : TRUE IN
    IF as_mapping_ref(interface, path) = {}
    THEN [value |-> NoValue, store |-> st, res |-> "MissingMapping"]
    ELSE LET mapping == CHOOSE m \in as_mapping_ref(interface, path) : TRUE
             found == property(st, interface, mapping, path)
         IN [value |-> found.value, store |-> found.store, res |-> "ok"]

\* a send that stores the value before it is transmitted
send_store_impl_store_first(cat, st, interface_name, path, data, fail) ==
    IF get_property(cat, interface_name) = {}
    THEN [store |-> st, out |-> <<>>, res |-> "MissingInterface"]
    ELSE LET interface == CHOOSE i \in get_property(cat, interface_name) : TRUE IN
    IF as_mapping_ref(interface, path) = {}
    THEN [store |-> st, out |-> <<>>, res |-> "MissingMapping"]
    ELSE LET mapping == CHOOSE m \in as_mapping_ref(interface, path) : TRUE
             stored == property(st, interface, mapping, path)
             buf == serialize_individual(interface, mapping, data)
             callSeq == send_individual(interface, mapping, buf.bytes)
         IN IF stored.value = data
            THEN [store |-> stored.store, out |-> <<>>, res |-> "ok"]
            ELSE IF buf.err # "ok"
            THEN [store |-> stored.store, out |-> <<>>, res |-> buf.err]
            ELSE [store |-> store_prop(stored.store,
                                       StoredProp(interface.interface_name, path, data,
                                                  interface.version_major, interface.ownership)),
                  out |-> Attempt(callSeq, fail),
                  res |-> IF Failed(callSeq, fail) THEN "ClientError" ELSE "ok"]

\* AstarteDeviceSdk::send_store_impl: the store it leaves, the client calls it
\* makes and its result; `fail` is 1 when the publish returns an error.  The
\* validation of the value returns its error only in a build with debug
\* assertions: this is the build without them, where it is logged.
send_store_impl(cat, st, interface_name, path, data, fail) ==
    IF ~PathValid(path) THEN [store |-> st, out |-> <<>>, res |-> "InvalidEndpoint"]
    ELSE IF Get(cat, interface_name) = {}
    THEN [store |-> st, out |-> <<>>, res |-> "MissingInterface"]
    ELSE LET interface == CHOOSE i \in Get(cat, interface_name) : TRUE IN
    IF as_mapping_ref(interface, path) = {}
    THEN [store |-> st, out |-> <<>>, res |-> "MissingMapping"]
    ELSE LET mapping == CHOOSE m \in as_mapping_ref(interface, path) : TRUE
             is_property == interface.kind = "Property"
             stored == IF is_property THEN property(st, interface, mapping, path)
                       ELSE [value |-> NoValue, store |-> st]
             buf == serialize_individual(interface, mapping, data)
             callSeq == send_individual(interface, mapping, buf.bytes)
         IN IF is_property /\ stored.value = data
            THEN [store |-> stored.store, out |-> <<>>, res |-> "ok"]
            ELSE IF buf.err # "ok"
            THEN [store |-> stored.store, out |-> <<>>, res |-> buf.err]
            ELSE IF Failed(callSeq, fail)
            THEN [store |-> stored.store, out |-> Attempt(callSeq, fail), res |-> "ClientError"]
            ELSE [store |-> IF is_property
                            THEN store_prop(stored.store,
                                            StoredProp(interface.interface_name, path, data,
                                                       interface.version_major,
                                                       interface.ownership))
                            ELSE stored.store,
                  out |-> callSeq,
                  res |-> "ok"]

\* Mqtt::send_object: the publish of a serialized aggregate
send_object(object, path, bytes) ==
    <<Publish(DataTopic(object.interface_name, path), bytes)>>

\* AstarteDeviceSdk::send_object_impl: the client calls it makes and its result
send_object_impl(cat, interface_name, path, data, fail) ==
    IF ~PathValid(path) THEN [out |-> <<>>, res |-> "InvalidEndpoint"]
    ELSE IF Get(cat, interface_name) = {} THEN [out |-> <<>>, res |-> "MissingInterface"]
    ELSE LET interface == CHOOSE i \in Get(cat, interface_name) : TRUE IN
    IF as_object_ref(interface) = {} THEN [out |-> <<>>, res |-> "Aggregation"]
    ELSE LET object == CHOOSE o \in as_object_ref(interface) : TRUE
             buf == serialize_object(object, path, data)
             callSeq == send_object(object, path, buf.bytes)
         IN IF buf.err # "ok" THEN [out |-> <<>>, res |-> buf.err]
            ELSE [out |-> Attempt(callSeq, fail),
                  res |-> IF Failed(callSeq, fail) THEN "ClientError" ELSE "ok"]

\* the timestamp of a call: send and send_object pass None, send_with_timestamp and
\* send_object_with_timestamp pass Some
NoTimestamp == "None"
SomeTimestamp == "Some"

\* validate::validate_send_individual
validate_send_individual(mapping, timestamp) ==
    IF timestamp # NoTimestamp /\ ~mapping.explicit_timestamp THEN "Validation(Timestamp)"
    ELSE "ok"

\* validate::validate_send_object
validate_send_object(object, timestamp) ==
    IF timestamp # NoTimestamp /\ \E m \in object.mappings : ~m.explicit_timestamp
    THEN "Validation(Timestamp)"
    ELSE "ok"

\* payload::serialize_individual with the timestamp of the call
serialize_individual_timestamp(interface, mapping, value, timestamp) ==
    IF serialize_individual(interface, mapping, value).err # "ok"
    THEN serialize_individual(interface, mapping, value)
    ELSE IF timestamp # NoTimestamp /\ ~mapping.explicit_timestamp
    THEN [err |-> "Payload(UnexpectedTimestamp)", bytes |-> EmptyPayload]
    ELSE serialize_individual(interface, mapping, value)

\* AstarteDeviceSdk::send_store_impl with its timestamp: the error of the validation
\* is returned only where the library is built with debug assertions
send_store_impl_timestamp(cat, st, interface_name, path, data, timestamp, debug, fail) ==
    IF ~PathValid(path) THEN [store |-> st, out |-> <<>>, res |-> "InvalidEndpoint"]
    ELSE IF Get(cat, interface_name) = {}
    THEN [store |-> st, out |-> <<>>, res |-> "MissingInterface"]
    ELSE LET interface == CHOOSE i \in Get(cat, interface_name) : TRUE IN
    IF as_mapping_ref(interface, path) = {}
    THEN [store |-> st, out |-> <<>>, res |-> "MissingMapping"]
    ELSE LET mapping == CHOOSE m \in as_mapping_ref(interface, path) : TRUE
             is_property == interface.kind = "Property"
             stored == IF is_property THEN property(st, interface, mapping, path)
                       ELSE [value |-> NoValue, store |-> st]
             buf == serialize_individual_timestamp(interface, mapping, data, timestamp)
             callSeq == send_individual(interface, mapping, buf.bytes)
         IN IF validate_send_individual(mapping, timestamp) # "ok" /\ debug
            THEN [store |-> st, out |-> <<>>, res |-> validate_send_individual(mapping, timestamp)]
            ELSE IF is_property /\ stored.value = data
            THEN [store |-> stored.store, out |-> <<>>, res |-> "ok"]
            ELSE IF buf.err # "ok"
            THEN [store |-> stored.store, out |-> <<>>, res |-> buf.err]
            ELSE IF Failed(callSeq, fail)
            THEN [store |-> stored.store, out |-> Attempt(callSeq, fail), res |-> "ClientError"]
            ELSE [store |-> IF is_property
                            THEN store_prop(stored.store,
                                            StoredProp(interface.interface_name, path, data,
                                                       interface.version_major,
                                                       interface.ownership))
                            ELSE stored.store,
                  out |-> callSeq,
                  res |-> "ok"]

\* AstarteDeviceSdk::send_object_impl with its timestamp
send_object_impl_timestamp(cat, interface_name, path, data, timestamp, debug, fail) ==
    IF ~PathValid(path) THEN [out |-> <<>>, res |-> "InvalidEndpoint"]
    ELSE IF Get(cat, interface_name) = {} THEN [out |-> <<>>, res |-> "MissingInterface"]
    ELSE LET interface == CHOOSE i \in Get(cat, interface_name) : TRUE IN
    IF as_object_ref(interface) = {} THEN [out |-> <<>>, res |-> "Aggregation"]
    ELSE LET object == CHOOSE o \in as_object_ref(interface) : TRUE
             buf == serialize_object(object, path, data)
             callSeq == send_object(object, path, buf.bytes)
         IN IF validate_send_object(object, timestamp) # "ok" /\ debug
            THEN [out |-> <<>>, res |-> validate_send_object(object, timestamp)]
            ELSE IF buf.err # "ok" THEN [out |-> <<>>, res |-> buf.err]
            ELSE [out |-> Attempt(callSeq, fail),
                  res |-> IF Failed(callSeq, fail) THEN "ClientError" ELSE "ok"]

\* AstarteDeviceSdk::remove_properties_from_store: the properties of the
\* interface are deleted at the endpoint of each of its mappings, the
\* interface being looked up in the catalog as it is when this runs
RECURSIVE DeleteEndpoints(_, _, _)
DeleteEndpoints(st, interface_name, mappings) ==
    IF mappings = {} THEN st
    ELSE LET mapping == CHOOSE m \in mappings : TRUE
         IN DeleteEndpoints(delete_prop(st, interface_name, mapping.endpoint),
                            interface_name, mappings \ {mapping})

remove_properties_from_store(cat, st, interface_name) ==
    IF get_property(cat, interface_name) = {} THEN st
    ELSE LET prop == CHOOSE i \in get_property(cat, interface_name) : TRUE
         IN DeleteEndpoints(st, interface_name, prop.mappings)

\* a remove_interface that unsubscribes before it publishes the introspection
remove_interface_unsubscribe_first(cat, st, interface_name, fail) ==
    IF Get(cat, interface_name) = {}
    THEN [interfaces |-> cat, store |-> st, out |-> <<>>, res |-> "InterfaceNotFound"]
    ELSE LET interface == CHOOSE i \in Get(cat, interface_name) : TRUE
             removed == CatalogRemove(cat, interface_name)
             st2 == remove_properties_from_store(removed, st, interface_name)
             callSeq == (IF interface.ownership = "Server"
                         THEN <<Unsubscribe(InterfaceFilter(interface_name))>>
                         ELSE <<>>)
                          \o send_introspection(get_introspection_string(removed))
         IN [interfaces |-> removed, store |-> st2, out |-> Attempt(callSeq, fail),
             res |-> IF Failed(callSeq, fail) THEN "ClientError" ELSE "ok"]

\* InterfaceRegistry::remove_interface
remove_interface(cat, st, interface_name, fail) ==
    IF Get(cat, interface_name) = {}
    THEN [interfaces |-> cat, store |-> st, out |-> <<>>, res |-> "InterfaceNotFound"]
    ELSE LET interface == CHOOSE i \in Get(cat, interface_name) : TRUE
             removed == CatalogRemove(cat, interface_name)
             st2 == remove_properties_from_store(removed, st, interface_name)
             callSeq == send_introspection(get_introspection_string(removed))
                          \o (IF interface.ownership = "Server"
                              THEN <<Unsubscribe(InterfaceFilter(interface_name))>>
                              ELSE <<>>)
         IN [interfaces |-> removed, store |-> st2, out |-> Attempt(callSeq, fail),
             res |-> IF Failed(callSeq, fail) THEN "ClientError" ELSE "ok"]

\* InterfaceRegistry::add_interface
add_interface(cat, interface, fail) ==
    LET sub == IF interface.ownership = "Server"
               THEN <<Subscribe(InterfaceFilter(interface.interface_name))>>
               ELSE <<>>
    IN IF Failed(sub, fail)
       THEN [interfaces |-> cat, out |-> Attempt(sub, fail), res |-> "ClientError"]
       ELSE IF ~AddAllowed(cat, interface)
       THEN [interfaces |-> cat, out |-> sub, res |-> "Interface(Version)"]
       ELSE LET added == CatalogAdd(cat, interface)
                callSeq == sub \o send_introspection(get_introspection_string(added))
            IN [interfaces |-> added, out |-> Attempt(callSeq, fail),
                res |-> IF Failed(callSeq, fail) THEN "ClientError" ELSE "ok"]

\* ReceivedEvent
ReceivedEvent(interface, path, payload) ==
    [interface |-> interface, path |-> path, payload |-> payload]

\* what is sent on the consumer channel: Ok(AstarteDeviceDataEvent) or Err
Delivered(interface, path, err, data) ==
    [interface |-> interface, path |-> path, err |-> err, data |-> data]

\* a handle_event that delivers the event and stores nothing
handle_event_no_store(cat, st, event) ==
    LET fails(err) == [store |-> st,
                       item |-> Delivered(event.interface, event.path, err, NoValue)]
    IN IF ~PathValid(event.path) THEN fails("InvalidEndpoint")
       ELSE IF Get(cat, event.interface) = {} THEN fails("MissingInterface")
       ELSE LET interface == CHOOSE i \in Get(cat, event.interface) : TRUE IN
       IF interface.aggregation = "Object"
       THEN LET decoded == deserialize_object(interface, event.path, event.payload)
            IN IF decoded.err # "ok" THEN fails(decoded.err)
               ELSE [store |-> st,
                     item |-> Delivered(event.interface, event.path, "ok", decoded.value)]
       ELSE IF as_mapping_ref(interface, event.path) = {} THEN fails("MissingMapping")
       ELSE LET mapping == CHOOSE m \in as_mapping_ref(interface, event.path) : TRUE
                decoded == deserialize_individual(interface, mapping, event.payload)
            IN IF decoded.err # "ok" THEN fails(decoded.err)
               ELSE [store |-> st,
                     item |-> Delivered(event.interface, event.path, "ok", decoded.value)]

\* a handle_event that delivers the event under the endpoint of the mapping
handle_event_endpoint_path(cat, st, event) ==
    LET fails(err) == [store |-> st,
                       item |-> Delivered(event.interface, event.path, err, NoValue)]
    IN IF ~PathValid(event.path) THEN fails("InvalidEndpoint")
       ELSE IF Get(cat, event.interface) = {} THEN fails("MissingInterface")
       ELSE LET interface == CHOOSE i \in Get(cat, event.interface) : TRUE IN
       IF interface.aggregation = "Object"
       THEN LET decoded == deserialize_object(interface, event.path, event.payload)
            IN IF decoded.err # "ok" THEN fails(decoded.err)
               ELSE [store |-> st,
                     item |-> Delivered(event.interface, event.path, "ok", decoded.value)]
       ELSE IF as_mapping_ref(interface, event.path) = {} THEN fails("MissingMapping")
       ELSE LET mapping == CHOOSE m \in as_mapping_ref(interface, event.path) : TRUE
                decoded == deserialize_individual(interface, mapping, event.payload)
            IN IF decoded.err # "ok" THEN fails(decoded.err)
               ELSE [store |-> IF interface.kind = "Property"
                               THEN store_prop(st, StoredProp(interface.interface_name,
                                                              event.path, decoded.value,
                                                              interface.version_major,
                                                              interface.ownership))
                               ELSE st,
                     item |-> Delivered(event.interface, mapping.endpoint, "ok", decoded.value)]

\* AstarteDeviceSdk::handle_event with handle_payload_individual and
\* handle_payload_object: the store it leaves and the item that the task sends
\* on the consumer channel
handle_event(cat, st, event) ==
    LET fails(err) == [store |-> st,
                       item |-> Delivered(event.interface, event.path, err, NoValue)]
    IN IF ~PathValid(event.path) THEN fails("InvalidEndpoint")
       ELSE IF Get(cat, event.interface) = {} THEN fails("MissingInterface")
       ELSE LET interface == CHOOSE i \in Get(cat, event.interface) : TRUE IN
       IF interface.aggregation = "Object"
       THEN LET decoded == deserialize_object(interface, event.path, event.payload)
            IN IF decoded.err # "ok" THEN fails(decoded.err)
               ELSE [store |-> st,
                     item |-> Delivered(event.interface, event.path, "ok", decoded.value)]
       ELSE IF as_mapping_ref(interface, event.path) = {} THEN fails("MissingMapping")
       ELSE LET mapping == CHOOSE m \in as_mapping_ref(interface, event.path) : TRUE
                decoded == deserialize_individual(interface, mapping, event.payload)
            IN IF decoded.err # "ok" THEN fails(decoded.err)
               ELSE [store |-> IF interface.kind = "Property"
                               THEN store_prop(st, StoredProp(interface.interface_name,
                                                              event.path, decoded.value,
                                                              interface.version_major,
                                                              interface.ownership))
                               ELSE st,
                     item |-> Delivered(event.interface, event.path, "ok", decoded.value)]

(***************************************************************************)
(* The inputs of the model: the packets the event loop may return, and the *)
(* arguments of the API calls.                                             *)
(***************************************************************************)
\* "<interface><path>" entries of a purge-properties list
EntryA1 == NameA \o Path1n
EntryA2 == NameA \o Path2n
EntryB == NameB \o PathE

PurgeLists == {<<>>, EntryA1, EntryA2 \o <<";">> \o EntryB}

\* "<client_id>/control/consumer/properties/another"
AlmostPurgeTopic == PurgeTopic \o Slash \o S_another

\* a topic of another device and a topic with no path
ForeignTopic == <<"r", "/", "x", "/", "B", "/", "e">>
NoPathTopic == ClientId \o Slash \o NameB

PurgePayloads == {Deflated(l) : l \in PurgeLists} \cup {DeflatedNotUtf8, ShortPayload, Bson(V1)}
IncomingData ==
    {<<DataTopic(NameA, Path1n), Bson(V1)>>, <<DataTopic(NameB, PathE), Bson(V1)>>,
     <<DataTopic(NameB, PathE), EmptyPayload>>, <<DataTopic(NameS, PathV), Bson(V2)>>,
     <<DataTopic(NameA, Path1n), EmptyPayload>>}

\* the publishes on the object interface, received by a device that has it
\* installed: a complete aggregate and one with a key missing
ObjectData(cat) ==
    IF Get(cat, NameO) = {} THEN {}
    ELSE {<<DataTopic(NameO, Path1), Bson(ObjAB)>>, <<DataTopic(NameO, Path1), Bson(ObjA)>>}
BadTopics == {<<>>, ForeignTopic, NoPathTopic}

\* the publishes that may come in: [topic, payload]
IncomingPublishes ==
    ({PurgeTopic} \X PurgePayloads)
        \cup IncomingData
        \cup ({AlmostPurgeTopic} \X {Deflated(<<>>)})
        \cup (BadTopics \X {Bson(V1)})

SendValues == {V1, V2}

\* the aggregates of the API calls: complete, with a key missing, with a key
\* that the object does not have, and with a value of another type
SendObjects == {ObjAB, ObjA, ObjABx, ObjAs}

\* the calls of send_object: [interface, path, aggregate]; the last one is on
\* an interface that is not an object
SendObjectCalls == {<<NameO, Path1, o>> : o \in SendObjects} \cup {<<NameA, Path1n, ObjAB>>}

\* the (interface, path) pairs of the API calls: the last one has no mapping
SendTargets == {<<NameA, Path1n>>, <<NameA, Path2n>>, <<NameB, PathE>>, <<NameA, PathE>>}

\* the calls of send: [interface, path, value]; the last one has a value of
\* another type than the mapping
SendCalls ==
    {<<t[1], t[2], v>> : t \in SendTargets, v \in SendValues} \cup {<<NameA, Path1n, VStr>>}

(***************************************************************************)
(* The state machine.                                                      *)
(***************************************************************************)
NoClientId == [realm |-> <<>>, device_id |-> <<>>]

\* Mqtt::client_id
client_id == [realm |-> realm, device_id |-> device_id]

Op(kind, name, path, value, topic, payload, session_present, fail) ==
    [kind |-> kind, name |-> name, path |-> path, value |-> value, topic |-> topic,
     payload |-> payload, session_present |-> session_present, fail |-> fail]

NoOp == Op("none", <<>>, <<>>, NoValue, <<>>, EmptyPayload, FALSE, 0)

\* `first` is the number of publishes the first of the two calls made, `sent` are its calls
NotRepeated == [is |-> FALSE, first |-> 0, sent |-> <<>>]

\* the last step was on the property (interface_name, path)
FollowsSendOn(interface_name, path) == last.name = interface_name /\ last.path = path

\* no task holds the Mutex
NoHolder == "none"

\* the Streaming the connection is built with (GrpcConfig::connect attaches the node)
FirstStreaming == [by |-> "connect", n |-> 0]

\* the tasks that use the connection: the receive loop (handle_events), a caller of
\* send or send_object, and a caller of add_interface or remove_interface
ConnTasks == {"receive", "send", "registry"}

NoLoad == [interface |-> <<>>, path |-> <<>>, interface_major |-> 0]

Init ==
    /\ interfaces = {IfaceA1, IfaceB, IfaceS}
    /\ store = {}
    /\ pc = "running"
    /\ tasks = <<>>
    /\ rx = <<>>
    /\ PURGE_PROPERTIES_TOPIC = <<>>
    /\ CLIENT_ID = NoClientId
    /\ last = NoOp
    /\ out = <<>>
    /\ res = "ok"
    /\ pre = {}
    /\ repeat = NotRepeated
    /\ loading = NoLoad
    /\ closed = FALSE
    /\ eventloop = NoHolder
    /\ stream = NoHolder
    /\ client = NoHolder
    /\ at = [t \in ConnTasks |-> "idle"]
    /\ retries = <<>>
    /\ debug_assertions = TRUE
    /\ node = "attached"
    /\ streaming = FirstStreaming
    /\ readers = {}
    /\ steps = 0

\* next_event polls a ConnAck: Mqtt::connack runs, and its error ends next_event
\* and, through `?`, handle_events
RecvConnAck ==
    /\ pc = "running"
    /\ steps < MaxSteps
    /\ \E session_present \in BOOLEAN :
       \E server_interfaces \in Orders(filter_server_interfaces(interfaces)) :
       \E device_properties \in Orders(filter_device_properties(load_all_props(store), interfaces)) :
       \E fail \in 0..Len(HandshakeCalls(interfaces, server_interfaces, device_properties)) :
          LET r == connack(interfaces, store, session_present, server_interfaces,
                           device_properties, fail)
          IN /\ (session_present => fail = 0)
             /\ last' = Op("connack", <<>>, <<>>, NoValue, <<>>, EmptyPayload, session_present, fail)
             /\ out' = r.out
             /\ res' = r.res
             /\ pc' = IF r.res = "ok" THEN "running" ELSE "ended"
    /\ pre' = store
    /\ UNCHANGED <<loading, closed, conn_vars, env_vars>>
    /\ repeat' = NotRepeated
    /\ steps' = steps + 1
    /\ UNCHANGED <<interfaces, store, tasks, rx, PURGE_PROPERTIES_TOPIC, CLIENT_ID>>

\* next_event polls a Publish: a purge-properties directive is reconciled, any
\* other publish is parsed into a ReceivedEvent, for which handle_events spawns
\* a task
RecvPublish ==
    /\ pc = "running"
    /\ steps < MaxSteps
    /\ \E publish \in IncomingPublishes \cup ObjectData(interfaces) :
          LET topic == publish[1]
              payload == publish[2]
              purge_topic == IF PURGE_PROPERTIES_TOPIC = <<>> THEN PurgeTopic
                             ELSE PURGE_PROPERTIES_TOPIC
              cid == IF CLIENT_ID = NoClientId THEN client_id ELSE CLIENT_ID
              parsed == try_parse(cid, topic)
              purged == purge_properties(store, payload)
          IN /\ last' = Op("publish", <<>>, <<>>, NoValue, topic, payload, FALSE, 0)
             /\ PURGE_PROPERTIES_TOPIC' = purge_topic
             /\ IF is_purge(purge_topic, topic)
                THEN /\ store' = purged.store
                     /\ out' = purged.out
                     /\ res' = purged.res
                     /\ pc' = IF purged.res = "ok" THEN "running" ELSE "ended"
                     /\ UNCHANGED <<tasks, CLIENT_ID>>
                ELSE /\ CLIENT_ID' = cid
                     /\ out' = <<>>
                     /\ UNCHANGED store
                     /\ IF parsed.kind \in {"InterfacePath", "PurgeProperties"}
                        THEN /\ Len(tasks) < MaxTasks
                             /\ tasks' = Append(tasks,
                                    IF parsed.kind = "InterfacePath"
                                    THEN ReceivedEvent(parsed.interface, parsed.path, payload)
                                    ELSE ReceivedEvent(S_control,
                                                       Slash \o S_consumer \o Slash \o S_properties,
                                                       payload))
                             /\ res' = "ok"
                             /\ pc' = "running"
                        ELSE /\ res' = "InvalidTopic(" \o parsed.kind \o ")"
                             /\ pc' = "ended"
                             /\ UNCHANGED tasks
    /\ pre' = store
    /\ UNCHANGED <<loading, closed, conn_vars, env_vars>>
    /\ repeat' = NotRepeated
    /\ steps' = steps + 1
    /\ UNCHANGED <<interfaces, rx>>

\* next_event polls any other packet: it is traced and the loop goes on
RecvOther ==
    /\ pc = "running"
    /\ steps < MaxSteps
    /\ last' = Op("packet", <<>>, <<>>, NoValue, <<>>, EmptyPayload, FALSE, 0)
    /\ out' = <<>>
    /\ res' = "ok"
    /\ pre' = store
    /\ UNCHANGED <<loading, closed, conn_vars, env_vars>>
    /\ repeat' = NotRepeated
    /\ steps' = steps + 1
    /\ UNCHANGED <<interfaces, store, pc, tasks, rx, PURGE_PROPERTIES_TOPIC, CLIENT_ID>>

\* the panic of `expect("Channel dropped")`
ChannelDropped == "panicked: Channel dropped"

\* a task spawned by handle_events runs: handle_event, then the send on tx,
\* which waits for room in the channel and fails once the receiver is dropped
RunTask ==
    /\ closed \/ Len(rx) < ChannelCapacity
    /\ \E i \in 1..Len(tasks) :
          LET handled == handle_event(interfaces, store, tasks[i])
          IN /\ store' = handled.store
             /\ rx' = IF closed THEN rx ELSE Append(rx, handled.item)
             /\ tasks' = SubSeq(tasks, 1, i - 1) \o SubSeq(tasks, i + 1, Len(tasks))
             /\ last' = Op("task", tasks[i].interface, tasks[i].path, NoValue, <<>>,
                           tasks[i].payload, FALSE, 0)
             /\ res' = IF closed THEN ChannelDropped ELSE handled.item.err
    /\ out' = <<>>
    /\ pre' = store
    /\ UNCHANGED <<loading, closed, conn_vars, env_vars>>
    /\ repeat' = NotRepeated
    /\ UNCHANGED <<interfaces, pc, PURGE_PROPERTIES_TOPIC, CLIENT_ID, steps>>

\* Device::send
Send ==
    /\ pc = "running"
    /\ steps < MaxSteps
    /\ \E call \in SendCalls, fail \in 0..1 :
          LET interface_name == call[1]
              path == call[2]
              data == call[3]
              r == send_store_impl(interfaces, store, interface_name, path, data, fail)
          IN /\ (fail = 1 => r.res = "ClientError")
             /\ store' = r.store
             /\ out' = r.out
             /\ res' = r.res
             /\ last' = Op("send", interface_name, path, data, <<>>, EmptyPayload, FALSE, fail)
             /\ repeat' = IF /\ last.kind = "send"
                             /\ res = "ok"
                             /\ last.name = interface_name
                             /\ last.path = path
                             /\ last.value = data
                          THEN [is |-> TRUE, first |-> Len(ClientCalls(out)),
                                sent |-> ClientCalls(out)]
                          ELSE NotRepeated
    /\ pre' = store
    /\ UNCHANGED <<loading, closed, conn_vars, env_vars>>
    /\ steps' = steps + 1
    /\ UNCHANGED <<interfaces, pc, tasks, rx, PURGE_PROPERTIES_TOPIC, CLIENT_ID>>

\* Device::unset
UnsetProperty ==
    /\ pc = "running"
    /\ steps < MaxSteps
    /\ \E target \in SendTargets, fail \in 0..1 :
          LET interface_name == target[1]
              path == target[2]
              r == send_store_impl(interfaces, store, interface_name, path, Unset, fail)
          IN /\ (fail = 1 => r.res = "ClientError")
             /\ store' = r.store
             /\ out' = r.out
             /\ res' = r.res
             /\ last' = Op("unset", interface_name, path, Unset, <<>>, EmptyPayload, FALSE, fail)
    /\ pre' = store
    /\ UNCHANGED <<loading, closed, conn_vars, env_vars>>
    /\ repeat' = IF last.kind = "send" /\ res = "ok" /\ FollowsSendOn(last'.name, last'.path)
                 THEN [is |-> TRUE, first |-> Len(ClientCalls(out)), sent |-> ClientCalls(out)]
                 ELSE NotRepeated
    /\ steps' = steps + 1
    /\ UNCHANGED <<interfaces, pc, tasks, rx, PURGE_PROPERTIES_TOPIC, CLIENT_ID>>

\* Device::send_object
SendObject ==
    /\ pc = "running"
    /\ steps < MaxSteps
    /\ \E call \in SendObjectCalls, fail \in 0..1 :
          LET interface_name == call[1]
              path == call[2]
              data == call[3]
              r == send_object_impl(interfaces, interface_name, path, data, fail)
          IN /\ (fail = 1 => r.res = "ClientError")
             /\ out' = r.out
             /\ res' = r.res
             /\ last' = Op("send_object", interface_name, path, data, <<>>, EmptyPayload,
                           FALSE, fail)
    /\ pre' = store
    /\ repeat' = NotRepeated
    /\ steps' = steps + 1
    /\ UNCHANGED <<interfaces, store, pc, tasks, rx, PURGE_PROPERTIES_TOPIC, CLIENT_ID,
                   loading, closed, conn_vars, env_vars>>

\* InterfaceRegistry::add_interface
AddInterface ==
    /\ pc = "running"
    /\ steps < MaxSteps
    /\ \E interface \in AllInterfaces, fail \in 0..2 :
          LET r == add_interface(interfaces, interface, fail)
          IN /\ (fail # 0 => r.res = "ClientError")
             /\ interfaces' = r.interfaces
             /\ out' = r.out
             /\ res' = r.res
             /\ last' = Op("add_interface", interface.interface_name, <<>>, NoValue, <<>>,
                           EmptyPayload, FALSE, fail)
    /\ pre' = store
    /\ UNCHANGED <<loading, closed, conn_vars, env_vars>>
    /\ repeat' = NotRepeated
    /\ steps' = steps + 1
    /\ UNCHANGED <<store, pc, tasks, rx, PURGE_PROPERTIES_TOPIC, CLIENT_ID>>

\* InterfaceRegistry::remove_interface
RemoveInterface ==
    /\ pc = "running"
    /\ steps < MaxSteps
    /\ \E interface_name \in Names, fail \in 0..2 :
          LET r == remove_interface(interfaces, store, interface_name, fail)
          IN /\ (fail # 0 => r.res = "ClientError")
             /\ interfaces' = r.interfaces
             /\ store' = r.store
             /\ out' = r.out
             /\ res' = r.res
             /\ last' = Op("remove_interface", interface_name, <<>>, NoValue, <<>>,
                           EmptyPayload, FALSE, fail)
    /\ pre' = store
    /\ UNCHANGED <<loading, closed, conn_vars, env_vars>>
    /\ repeat' = NotRepeated
    /\ steps' = steps + 1
    /\ UNCHANGED <<pc, tasks, rx, PURGE_PROPERTIES_TOPIC, CLIENT_ID>>

\* the consumer receives the next item of the channel
Receive ==
    /\ ~closed
    /\ rx # <<>>
    /\ rx' = Tail(rx)
    /\ last' = Op("recv", <<>>, <<>>, NoValue, <<>>, EmptyPayload, FALSE, 0)
    /\ out' = <<>>
    /\ res' = "ok"
    /\ pre' = store
    /\ UNCHANGED <<loading, closed, conn_vars, env_vars>>
    /\ repeat' = NotRepeated
    /\ UNCHANGED <<interfaces, store, pc, tasks, PURGE_PROPERTIES_TOPIC, CLIENT_ID, steps>>

\* the consumer drops the receiver: the channel is closed and what it held is lost
DropReceiver ==
    /\ ~closed
    /\ steps < MaxSteps
    /\ closed' = TRUE
    /\ rx' = <<>>
    /\ last' = Op("drop", <<>>, <<>>, NoValue, <<>>, EmptyPayload, FALSE, 0)
    /\ out' = <<>>
    /\ res' = "ok"
    /\ pre' = store
    /\ repeat' = NotRepeated
    /\ steps' = steps + 1
    /\ UNCHANGED <<interfaces, store, pc, tasks, PURGE_PROPERTIES_TOPIC, CLIENT_ID, loading, conn_vars, env_vars>>

Next ==
    \/ RecvConnAck
    \/ RecvPublish
    \/ RecvOther
    \/ RunTask
    \/ Receive
    \/ DropReceiver
    \/ Send
    \/ UnsetProperty
    \/ AddInterface
    \/ RemoveInterface

Spec == Init /\ [][Next]_vars

(***************************************************************************)
(* The device with an object interface installed, once connected: the      *)
(* events it receives and the calls of send, unset and send_object.        *)
(***************************************************************************)
InitObject ==
    /\ interfaces = {IfaceA1, IfaceB, IfaceO}
    /\ store = {}
    /\ pc = "running"
    /\ tasks = <<>>
    /\ rx = <<>>
    /\ PURGE_PROPERTIES_TOPIC = <<>>
    /\ CLIENT_ID = NoClientId
    /\ last = NoOp
    /\ out = <<>>
    /\ res = "ok"
    /\ pre = {}
    /\ repeat = NotRepeated
    /\ loading = NoLoad
    /\ closed = FALSE
    /\ eventloop = NoHolder
    /\ stream = NoHolder
    /\ client = NoHolder
    /\ at = [t \in ConnTasks |-> "idle"]
    /\ retries = <<>>
    /\ debug_assertions = TRUE
    /\ node = "attached"
    /\ streaming = FirstStreaming
    /\ readers = {}
    /\ steps = 0

NextObject ==
    \/ RecvPublish
    \/ RunTask
    \/ Receive
    \/ DropReceiver
    \/ Send
    \/ UnsetProperty
    \/ SendObject
    \/ RemoveInterface

SpecObject == InitObject /\ [][NextObject]_vars

(***************************************************************************)
(* The catalog as the builder of the device fills it: interface_file adds   *)
(* one interface after the other, and its error ends the building.         *)
(***************************************************************************)
\* the (major, minor) versions of the interface files
FileVersions == {<<0, 1>>, <<1, 0>>, <<1, 1>>, <<2, 0>>, <<2, 1>>}

\* the interfaces of the files: two names, each at every version
FileInterfaces ==
    {Interface(NameA, v[1], v[2], "Device", "Property", Mapping(EndpointA, TRUE)) :
        v \in FileVersions}
      \cup {Interface(NameB, v[1], v[2], "Server", "Property", Mapping(EndpointB, FALSE)) :
                v \in FileVersions}

\* a builder that installs the interface whatever Interfaces::add returns
interface_file_unchecked(cat, interface) ==
    [interfaces |-> CatalogAdd(cat, interface), res |-> "ok"]

\* DeviceBuilder::interface_file: the catalog it leaves and its result
interface_file(cat, interface) ==
    IF ~AddAllowed(cat, interface) THEN [interfaces |-> cat, res |-> "Interface(Version)"]
    ELSE [interfaces |-> CatalogAdd(cat, interface), res |-> "ok"]

\* DeviceBuilder::new
InitBuilder ==
    /\ interfaces = {}
    /\ store = {}
    /\ pc = "running"
    /\ tasks = <<>>
    /\ rx = <<>>
    /\ PURGE_PROPERTIES_TOPIC = <<>>
    /\ CLIENT_ID = NoClientId
    /\ last = NoOp
    /\ out = <<>>
    /\ res = "ok"
    /\ pre = {}
    /\ repeat = NotRepeated
    /\ loading = NoLoad
    /\ closed = FALSE
    /\ eventloop = NoHolder
    /\ stream = NoHolder
    /\ client = NoHolder
    /\ at = [t \in ConnTasks |-> "idle"]
    /\ retries = <<>>
    /\ debug_assertions = TRUE
    /\ node = "attached"
    /\ streaming = FirstStreaming
    /\ readers = {}
    /\ steps = 0

\* DeviceBuilder::interface_file: the builder is consumed by a call that fails
InterfaceFile ==
    /\ res = "ok"
    /\ \E interface \in FileInterfaces :
          LET r == interface_file(interfaces, interface)
          IN /\ interfaces' = r.interfaces
             /\ res' = r.res
             /\ last' = [kind |-> "interface_file", interface |-> interface]
    /\ UNCHANGED <<store, pc, tasks, rx, PURGE_PROPERTIES_TOPIC, CLIENT_ID, out, pre, repeat,
                   loading, closed, conn_vars, env_vars, steps>>

SpecBuilder == InitBuilder /\ [][InterfaceFile]_vars

(***************************************************************************)
(* The MQTT event loop as next_event polls it: poll_mqtt_event holds the    *)
(* Mutex of the event loop from the poll to its return, the retries of a   *)
(* failed poll included, while send and send_object publish through the    *)
(* client handle.                                                          *)
(***************************************************************************)
MaxRetries == 2

\* the errors rumqttc's EventLoop::poll returns: a network failure, and the broker
\* refusing the credentials of the device
PollErrors == {"Io", "ConnectionRefused(BadUserNamePassword)"}

\* the poll errors that are a credential or identity failure
FatalPollErrors == {"ConnectionRefused(BadUserNamePassword)"}

\* a step of the receive loop inside Mqtt::poll
PollOp(kind) == Op(kind, <<>>, <<>>, NoValue, <<>>, EmptyPayload, FALSE, 0)

\* what the steps of the poll leave alone
poll_unchanged ==
    <<interfaces, store, tasks, rx, PURGE_PROPERTIES_TOPIC, CLIENT_ID, loading, closed,
      stream, client, env_vars, steps>>

\* Mqtt::poll_mqtt_event: the event loop is locked and polled
PollMqttEvent ==
    /\ pc = "running"
    /\ at["receive"] = "idle"
    /\ eventloop = NoHolder
    /\ eventloop' = "receive"
    /\ at' = [at EXCEPT !["receive"] = "poll"]
    /\ retries' = <<>>
    /\ last' = PollOp("poll_mqtt_event")
    /\ out' = <<>>
    /\ res' = "ok"
    /\ pre' = store
    /\ repeat' = NotRepeated
    /\ UNCHANGED pc
    /\ UNCHANGED poll_unchanged

\* Mqtt::poll_mqtt_event: the poll returns an event, and the lock is dropped
PollEvent ==
    /\ at["receive"] = "poll"
    /\ eventloop' = NoHolder
    /\ at' = [at EXCEPT !["receive"] = "idle"]
    /\ last' = PollOp("poll_event")
    /\ out' = <<>>
    /\ res' = "ok"
    /\ pre' = store
    /\ repeat' = NotRepeated
    /\ UNCHANGED <<pc, retries>>
    /\ UNCHANGED poll_unchanged

\* Mqtt::poll_mqtt_event: the poll fails, the error is logged and
\* DelayedPoll::retry_poll_event takes over the locked event loop
PollError ==
    /\ at["receive"] = "poll"
    /\ \E err \in PollErrors :
          /\ retries' = <<err>>
          /\ res' = err
    /\ at' = [at EXCEPT !["receive"] = "backoff"]
    /\ last' = PollOp("poll_error")
    /\ out' = <<>>
    /\ pre' = store
    /\ repeat' = NotRepeated
    /\ UNCHANGED <<pc, eventloop>>
    /\ UNCHANGED poll_unchanged

\* DelayedPoll::retry_poll_event: after the delay the event loop is polled again;
\* an event is returned to poll_mqtt_event, which drops the lock
RetryPollEvent ==
    /\ at["receive"] = "backoff"
    /\ Len(retries) <= MaxRetries
    /\ \/ /\ eventloop' = NoHolder
          /\ at' = [at EXCEPT !["receive"] = "idle"]
          /\ res' = "ok"
          /\ UNCHANGED retries
       \/ \E err \in PollErrors :
             /\ retries' = Append(retries, err)
             /\ res' = err
             /\ UNCHANGED <<eventloop, at>>
    /\ last' = PollOp("retry_poll_event")
    /\ out' = <<>>
    /\ pre' = store
    /\ repeat' = NotRepeated
    /\ UNCHANGED pc
    /\ UNCHANGED poll_unchanged

\* DelayedPoll::retry_poll_event reached the maximum number of retries:
\* Error::ConnectionTimeout goes through the `?` of Mqtt::poll and of next_event, and
\* handle_events returns it
RetryTimeout ==
    /\ at["receive"] = "backoff"
    /\ Len(retries) > MaxRetries
    /\ eventloop' = NoHolder
    /\ at' = [at EXCEPT !["receive"] = "idle"]
    /\ pc' = "ended"
    /\ res' = "ConnectionTimeout"
    /\ last' = PollOp("retry_timeout")
    /\ out' = <<>>
    /\ pre' = store
    /\ repeat' = NotRepeated
    /\ UNCHANGED retries
    /\ UNCHANGED poll_unchanged

NextPoll ==
    \/ PollMqttEvent
    \/ PollEvent
    \/ PollError
    \/ RetryPollEvent
    \/ RetryTimeout
    \/ Send
    \/ SendObject

SpecPoll == InitObject /\ [][NextPoll]_vars

(***************************************************************************)
(* The calls of send, unset and send_object on a device whose interfaces   *)
(* are replaced by newer versions while properties are stored.             *)
(***************************************************************************)
NextSend ==
    \/ Send
    \/ UnsetProperty
    \/ SendObject
    \/ AddInterface

SpecSend == InitObject /\ [][NextSend]_vars

(***************************************************************************)
(* The calls of send_with_timestamp and send_object_with_timestamp, on a   *)
(* library built with or without debug assertions.                         *)
(***************************************************************************)
TimestampCalls == SendCalls \cup {<<NameT, PathT, V1>>}

InitTimestamp ==
    /\ interfaces = {IfaceA1, IfaceO, IfaceT}
    /\ store = {}
    /\ pc = "running"
    /\ tasks = <<>>
    /\ rx = <<>>
    /\ PURGE_PROPERTIES_TOPIC = <<>>
    /\ CLIENT_ID = NoClientId
    /\ last = NoOp
    /\ out = <<>>
    /\ res = "ok"
    /\ pre = {}
    /\ repeat = NotRepeated
    /\ loading = NoLoad
    /\ closed = FALSE
    /\ eventloop = NoHolder
    /\ stream = NoHolder
    /\ client = NoHolder
    /\ at = [t \in ConnTasks |-> "idle"]
    /\ retries = <<>>
    /\ debug_assertions \in BOOLEAN
    /\ node = "attached"
    /\ streaming = FirstStreaming
    /\ readers = {}
    /\ steps = 0

\* Device::send_with_timestamp
SendWithTimestamp ==
    /\ pc = "running"
    /\ steps < MaxSteps
    /\ \E call \in TimestampCalls, fail \in 0..1 :
          LET r == send_store_impl_timestamp(interfaces, store, call[1], call[2], call[3],
                                             SomeTimestamp, debug_assertions, fail)
          IN /\ (fail = 1 => r.res = "ClientError")
             /\ store' = r.store
             /\ out' = r.out
             /\ res' = r.res
             /\ last' = Op("send_with_timestamp", call[1], call[2], call[3], <<>>,
                           EmptyPayload, FALSE, fail)
    /\ pre' = store
    /\ repeat' = NotRepeated
    /\ steps' = steps + 1
    /\ UNCHANGED <<interfaces, pc, tasks, rx, PURGE_PROPERTIES_TOPIC, CLIENT_ID,
                   loading, closed, conn_vars, env_vars>>

\* Device::send_object_with_timestamp
SendObjectWithTimestamp ==
    /\ pc = "running"
    /\ steps < MaxSteps
    /\ \E call \in SendObjectCalls, fail \in 0..1 :
          LET r == send_object_impl_timestamp(interfaces, call[1], call[2], call[3],
                                              SomeTimestamp, debug_assertions, fail)
          IN /\ (fail = 1 => r.res = "ClientError")
             /\ out' = r.out
             /\ res' = r.res
             /\ last' = Op("send_object_with_timestamp", call[1], call[2], call[3], <<>>,
                           EmptyPayload, FALSE, fail)
    /\ pre' = store
    /\ repeat' = NotRepeated
    /\ steps' = steps + 1
    /\ UNCHANGED <<interfaces, store, pc, tasks, rx, PURGE_PROPERTIES_TOPIC, CLIENT_ID,
                   loading, closed, conn_vars, env_vars>>

NextTimestamp ==
    \/ Send
    \/ SendWithTimestamp
    \/ SendObjectWithTimestamp

SpecTimestamp == InitTimestamp /\ [][NextTimestamp]_vars

(***************************************************************************)
(* The registry calls on a device that has newer versions installed than   *)
(* the ones the calls add.                                                 *)
(***************************************************************************)
\* the server-owned datastream at a later minor version
IfaceS2 == [IfaceS EXCEPT !.version_minor = 2]

InitRegistry ==
    /\ interfaces = {IfaceA2, IfaceS2}
    /\ store = {}
    /\ pc = "running"
    /\ tasks = <<>>
    /\ rx = <<>>
    /\ PURGE_PROPERTIES_TOPIC = <<>>
    /\ CLIENT_ID = NoClientId
    /\ last = NoOp
    /\ out = <<>>
    /\ res = "ok"
    /\ pre = {}
    /\ repeat = NotRepeated
    /\ loading = NoLoad
    /\ closed = FALSE
    /\ eventloop = NoHolder
    /\ stream = NoHolder
    /\ client = NoHolder
    /\ at = [t \in ConnTasks |-> "idle"]
    /\ retries = <<>>
    /\ debug_assertions = TRUE
    /\ node = "attached"
    /\ streaming = FirstStreaming
    /\ readers = {}
    /\ steps = 0

NextRegistry ==
    \/ AddInterface
    \/ RemoveInterface

SpecRegistry == InitRegistry /\ [][NextRegistry]_vars

(***************************************************************************)
(* Registry calls that run concurrently: two tasks, each with one call of  *)
(* add_interface or remove_interface on the device they share.             *)
(***************************************************************************)
RegistryTasks == {"t1", "t2"}

\* the calls a task may make: add_interface(interface) and remove_interface(name)
RegistryCalls ==
    {[op |-> "add_interface", interface |-> i, name |-> i.interface_name] : i \in AllInterfaces}
        \cup {[op |-> "remove_interface", interface |-> IfaceB, name |-> n] : n \in {NameA, NameB}}

\* where a task is in its call: "idle" before it, "written" once the catalog is
\* changed, "publish" while send_introspection runs, "done" with the result in res
RegistryAt(at_pc, call, introspection, result) ==
    [pc |-> at_pc, call |-> call, introspection |-> introspection, res |-> result]

\* a read guard that is dropped as soon as the introspection string is built
introspection_guard_dropped(t) == {}

\* `send_introspection(self.interfaces.read().await.get_introspection_string()).await?`:
\* the read guard is a temporary of the statement and lives until its end, that is
\* until send_introspection has returned
introspection_guard(t) == {t}

InitCatalog ==
    /\ interfaces = {IfaceA1, IfaceB}
    /\ store = {}
    /\ pc = "running"
    /\ tasks = <<>>
    /\ rx = <<>>
    /\ PURGE_PROPERTIES_TOPIC = <<>>
    /\ CLIENT_ID = NoClientId
    /\ last = NoOp
    /\ out = <<>>
    /\ res = "ok"
    /\ pre = {}
    /\ repeat = NotRepeated
    /\ loading = NoLoad
    /\ closed = FALSE
    /\ eventloop = NoHolder
    /\ stream = NoHolder
    /\ client = NoHolder
    /\ at \in [RegistryTasks -> {RegistryAt("idle", c, <<>>, "ok") : c \in RegistryCalls}]
    /\ retries = <<>>
    /\ debug_assertions = TRUE
    /\ node = "attached"
    /\ streaming = FirstStreaming
    /\ readers = {}
    /\ steps = 0

\* add_interface up to `self.interfaces.write().await.add(interface)?`: the subscribe
\* of a server-owned interface, then the add under the write guard, which waits
\* until no read guard is held
RegistryAdd ==
    \E t \in RegistryTasks, fail \in 0..1 :
       LET call == at[t].call
           sub == IF call.interface.ownership = "Server"
                  THEN <<Subscribe(InterfaceFilter(call.name))>>
                  ELSE <<>>
       IN /\ at[t].pc = "idle"
          /\ call.op = "add_interface"
          /\ (fail = 1 => sub # <<>>)
          /\ (fail = 0 => readers = {})
          /\ out' = out \o Attempt(sub, fail)
          /\ interfaces' = IF fail = 0 /\ AddAllowed(interfaces, call.interface)
                           THEN CatalogAdd(interfaces, call.interface)
                           ELSE interfaces
          /\ at' = [at EXCEPT ![t] =
                      IF fail = 1 THEN RegistryAt("done", call, <<>>, "ClientError")
                      ELSE IF ~AddAllowed(interfaces, call.interface)
                      THEN RegistryAt("done", call, <<>>, "Interface(Version)")
                      ELSE RegistryAt("written", call, <<>>, "ok")]
          /\ last' = Op(call.op, call.name, <<>>, NoValue, <<>>, EmptyPayload, FALSE, fail)
          /\ res' = at'[t].res
          /\ UNCHANGED <<store, pc, tasks, rx, PURGE_PROPERTIES_TOPIC, CLIENT_ID, pre, repeat,
                         loading, closed, eventloop, stream, client, retries,
                         debug_assertions, node, streaming, readers, steps>>

\* remove_interface up to remove_properties_from_store: the interface is removed
\* under the write guard, then its properties are deleted
RegistryRemove ==
    \E t \in RegistryTasks :
       LET call == at[t].call
           found == Get(interfaces, call.name) # {}
           removed == CatalogRemove(interfaces, call.name)
       IN /\ at[t].pc = "idle"
          /\ call.op = "remove_interface"
          /\ readers = {}
          /\ interfaces' = removed
          /\ store' = IF found THEN remove_properties_from_store(removed, store, call.name)
                      ELSE store
          /\ at' = [at EXCEPT ![t] =
                      IF found
                      THEN RegistryAt("written",
                                      [call EXCEPT !.interface =
                                          CHOOSE i \in Get(interfaces, call.name) : TRUE],
                                      <<>>, "ok")
                      ELSE RegistryAt("done", call, <<>>, "InterfaceNotFound")]
          /\ last' = Op(call.op, call.name, <<>>, NoValue, <<>>, EmptyPayload, FALSE, 0)
          /\ res' = at'[t].res
          /\ pre' = store
          /\ UNCHANGED <<pc, tasks, rx, PURGE_PROPERTIES_TOPIC, CLIENT_ID, out, repeat,
                         loading, closed, eventloop, stream, client, retries,
                         debug_assertions, node, streaming, readers, steps>>

\* the argument of send_introspection is evaluated: the introspection string of the
\* catalog, read under a read guard
RegistryIntrospection ==
    \E t \in RegistryTasks :
       /\ at[t].pc = "written"
       /\ readers' = readers \cup introspection_guard(t)
       /\ at' = [at EXCEPT ![t] = RegistryAt("publish", at[t].call,
                                              get_introspection_string(interfaces), "ok")]
       /\ last' = Op("introspection", at[t].call.name, <<>>, NoValue, <<>>, EmptyPayload,
                     FALSE, 0)
       /\ res' = "ok"
       /\ UNCHANGED <<interfaces, store, pc, tasks, rx, PURGE_PROPERTIES_TOPIC, CLIENT_ID, out,
                      pre, repeat, loading, closed, eventloop, stream, client, retries,
                      debug_assertions, node, streaming, steps>>

\* send_introspection returns and the read guard is dropped; remove_interface goes
\* on to unsubscribe from a server-owned interface
RegistryPublish ==
    \E t \in RegistryTasks, fail \in 0..2 :
       LET call == at[t].call
           callSeq == send_introspection(at[t].introspection)
                        \o (IF call.op = "remove_interface" /\ call.interface.ownership = "Server"
                            THEN <<Unsubscribe(InterfaceFilter(call.name))>>
                            ELSE <<>>)
       IN /\ at[t].pc = "publish"
          /\ fail <= Len(callSeq)
          /\ out' = out \o Attempt(callSeq, fail)
          /\ readers' = readers \ {t}
          /\ at' = [at EXCEPT ![t] =
                      RegistryAt("done", call, at[t].introspection,
                                 IF Failed(callSeq, fail) THEN "ClientError" ELSE "ok")]
          /\ last' = Op("send_introspection", call.name, <<>>, NoValue, <<>>, EmptyPayload,
                        FALSE, fail)
          /\ res' = at'[t].res
          /\ UNCHANGED <<interfaces, store, pc, tasks, rx, PURGE_PROPERTIES_TOPIC, CLIENT_ID,
                         pre, repeat, loading, closed, eventloop, stream, client, retries,
                         debug_assertions, node, streaming, steps>>

NextCatalog ==
    \/ RegistryAdd
    \/ RegistryRemove
    \/ RegistryIntrospection
    \/ RegistryPublish

SpecCatalog == InitCatalog /\ [][NextCatalog]_vars

(***************************************************************************)
(* Sends that run concurrently: two tasks, each with one call of send on a *)
(* property of the device-owned interface A.                               *)
(***************************************************************************)
SenderTasks == {"s1", "s2"}

\* where a task is in send_store_impl: "idle" before it, "send" once
\* is_property_stored has returned, "store" once the publish is made, "done" with
\* the result in res
SenderAt(at_pc, path, data, result) ==
    [pc |-> at_pc, path |-> path, data |-> data, res |-> result]

SenderMapping(path) == CHOOSE m \in as_mapping_ref(IfaceA1, path) : TRUE

InitSenders ==
    /\ interfaces = {IfaceA1}
    /\ store = {}
    /\ pc = "running"
    /\ tasks = <<>>
    /\ rx = <<>>
    /\ PURGE_PROPERTIES_TOPIC = <<>>
    /\ CLIENT_ID = NoClientId
    /\ last = NoOp
    /\ out = <<>>
    /\ res = "ok"
    /\ pre = {}
    /\ repeat = NotRepeated
    /\ loading = NoLoad
    /\ closed = FALSE
    /\ eventloop = NoHolder
    /\ stream = NoHolder
    /\ client = NoHolder
    /\ at \in [SenderTasks -> {SenderAt("idle", path, data, "ok") :
                                  path \in {Path1n, Path2n}, data \in {V1, V2, VStr}}]
    /\ retries = <<>>
    /\ debug_assertions = TRUE
    /\ node = "attached"
    /\ streaming = FirstStreaming
    /\ readers = {}
    /\ steps = 0

\* send_store_impl up to is_property_stored: the stored value is read, and the call
\* returns when it equals the value to send
SenderStored ==
    \E t \in SenderTasks :
       LET stored == property(store, IfaceA1, SenderMapping(at[t].path), at[t].path)
       IN /\ at[t].pc = "idle"
          /\ store' = stored.store
          /\ at' = [at EXCEPT ![t] =
                      SenderAt(IF stored.value = at[t].data THEN "done" ELSE "send",
                               at[t].path, at[t].data, "ok")]
          /\ last' = Op("is_property_stored", NameA, at[t].path, at[t].data, <<>>,
                        EmptyPayload, FALSE, 0)
          /\ res' = "ok"
          /\ pre' = store
          /\ UNCHANGED <<interfaces, pc, tasks, rx, PURGE_PROPERTIES_TOPIC, CLIENT_ID, out,
                         repeat, loading, closed, eventloop, stream, client, retries,
                         env_vars, steps>>

\* send_store_impl, connection.send_individual: the value is serialized and published
SenderPublish ==
    \E t \in SenderTasks, fail \in 0..1 :
       LET buf == serialize_individual(IfaceA1, SenderMapping(at[t].path), at[t].data)
           callSeq == <<Publish(DataTopic(NameA, at[t].path), buf.bytes)>>
       IN /\ at[t].pc = "send"
          /\ (fail = 1 => buf.err = "ok")
          /\ out' = IF buf.err = "ok" THEN out \o Attempt(callSeq, fail) ELSE out
          /\ at' = [at EXCEPT ![t] =
                      IF buf.err # "ok" THEN SenderAt("done", at[t].path, at[t].data, buf.err)
                      ELSE IF fail = 1
                      THEN SenderAt("done", at[t].path, at[t].data, "ClientError")
                      ELSE SenderAt("store", at[t].path, at[t].data, "ok")]
          /\ last' = Op("send_individual", NameA, at[t].path, at[t].data, <<>>,
                        EmptyPayload, FALSE, fail)
          /\ res' = at'[t].res
          /\ UNCHANGED <<interfaces, store, pc, tasks, rx, PURGE_PROPERTIES_TOPIC, CLIENT_ID,
                         pre, repeat, loading, closed, eventloop, stream, client, retries,
                         env_vars, steps>>

\* send_store_impl, store_prop: the value that was published is stored
SenderStore ==
    \E t \in SenderTasks :
       /\ at[t].pc = "store"
       /\ store' = store_prop(store, StoredProp(NameA, at[t].path, at[t].data,
                                                IfaceA1.version_major, IfaceA1.ownership))
       /\ at' = [at EXCEPT ![t] = SenderAt("done", at[t].path, at[t].data, "ok")]
       /\ last' = Op("store_prop", NameA, at[t].path, at[t].data, <<>>, EmptyPayload, FALSE, 0)
       /\ res' = "ok"
       /\ pre' = store
       /\ UNCHANGED <<interfaces, pc, tasks, rx, PURGE_PROPERTIES_TOPIC, CLIENT_ID, out,
                      repeat, loading, closed, eventloop, stream, client, retries,
                      env_vars, steps>>

NextSenders ==
    \/ SenderStored
    \/ SenderPublish
    \/ SenderStore

SpecSenders == InitSenders /\ [][NextSenders]_vars

(***************************************************************************)
(* Two devices in one process, each with its own Mqtt connection and its   *)
(* own receive loop.  The statics of next_event are shared by the two.     *)
(***************************************************************************)
\* the device ids of the two connections, in the same realm
DeviceIds == {device_id, <<"x">>}

\* Mqtt::client_id of the connection of device d
ClientIdOf(d) == [realm |-> realm, device_id |-> d]

\* "<client_id>/control/consumer/properties" and "<client_id>/<name><path>" of device d
PurgeTopicOf(d) == realm \o Slash \o d \o Slash \o ControlConsumerProperties
DataTopicOf(d, name, path) == realm \o Slash \o d \o Slash \o name \o path

\* the publishes the broker delivers to the connection of device d: purge directives
\* on its purge topic and data on its subscribed server property
PublishesFor(d) ==
    ({PurgeTopicOf(d)} \X {Deflated(<<>>), Deflated(EntryB)})
        \cup ({DataTopicOf(d, NameB, PathE)} \X {Bson(V1), Bson(V2)})

InitConnections ==
    /\ interfaces = {IfaceA1, IfaceB}
    /\ store = [d \in DeviceIds |-> {StoredProp(NameB, PathE, V1, 1, "Server")}]
    /\ pc = [d \in DeviceIds |-> "running"]
    /\ tasks = <<>>
    /\ rx = <<>>
    /\ PURGE_PROPERTIES_TOPIC = <<>>
    /\ CLIENT_ID = NoClientId
    /\ last = NoOp
    /\ out = <<>>
    /\ res = "ok"
    /\ pre = {}
    /\ repeat = NotRepeated
    /\ loading = NoLoad
    /\ closed = FALSE
    /\ eventloop = NoHolder
    /\ stream = NoHolder
    /\ client = NoHolder
    /\ at = [t \in ConnTasks |-> "idle"]
    /\ retries = <<>>
    /\ debug_assertions = TRUE
    /\ node = "attached"
    /\ streaming = FirstStreaming
    /\ readers = {}
    /\ steps = 0

\* Mqtt::next_event of the connection of device d polls a Publish: the statics are
\* initialised by the first connection that gets here, with its own client id
RecvPublishOf ==
    /\ steps < MaxSteps
    /\ \E d \in DeviceIds :
       \E publish \in PublishesFor(d) :
          LET topic == publish[1]
              payload == publish[2]
              purge_topic == IF PURGE_PROPERTIES_TOPIC = <<>> THEN PurgeTopicOf(d)
                             ELSE PURGE_PROPERTIES_TOPIC
              cid == IF CLIENT_ID = NoClientId THEN ClientIdOf(d) ELSE CLIENT_ID
              parsed == try_parse(cid, topic)
              purged == purge_properties(store[d], payload)
          IN /\ pc[d] = "running"
             /\ last' = Op("publish", d, <<>>, NoValue, topic, payload, FALSE, 0)
             /\ PURGE_PROPERTIES_TOPIC' = purge_topic
             /\ IF is_purge(purge_topic, topic)
                THEN /\ store' = [store EXCEPT ![d] = purged.store]
                     /\ out' = purged.out
                     /\ res' = purged.res
                     /\ pc' = [pc EXCEPT ![d] = IF purged.res = "ok" THEN "running" ELSE "ended"]
                     /\ UNCHANGED <<tasks, CLIENT_ID>>
                ELSE /\ CLIENT_ID' = cid
                     /\ out' = <<>>
                     /\ UNCHANGED store
                     /\ IF parsed.kind \in {"InterfacePath", "PurgeProperties"}
                        THEN /\ Len(tasks) < MaxTasks
                             /\ tasks' = Append(tasks,
                                    IF parsed.kind = "InterfacePath"
                                    THEN ReceivedEvent(parsed.interface, parsed.path, payload)
                                    ELSE ReceivedEvent(S_control,
                                                       Slash \o S_consumer \o Slash \o S_properties,
                                                       payload))
                             /\ res' = "ok"
                             /\ UNCHANGED pc
                        ELSE /\ res' = "InvalidTopic(" \o parsed.kind \o ")"
                             /\ pc' = [pc EXCEPT ![d] = "ended"]
                             /\ UNCHANGED tasks
             /\ pre' = store[d]
    /\ repeat' = NotRepeated
    /\ steps' = steps + 1
    /\ UNCHANGED <<interfaces, rx, loading, closed, conn_vars, env_vars>>

\* the task of an event runs
RunTaskOf ==
    /\ tasks # <<>>
    /\ tasks' = Tail(tasks)
    /\ last' = Op("task", Head(tasks).interface, Head(tasks).path, NoValue, <<>>,
                  Head(tasks).payload, FALSE, 0)
    /\ out' = <<>>
    /\ res' = "ok"
    /\ UNCHANGED <<interfaces, store, pc, rx, PURGE_PROPERTIES_TOPIC, CLIENT_ID, pre, repeat,
                   loading, closed, conn_vars, env_vars, steps>>

NextConnections ==
    \/ RecvPublishOf
    \/ RunTaskOf

SpecConnections == InitConnections /\ [][NextConnections]_vars

(***************************************************************************)
(* The messages of the message hub (transport/grpc/convert.rs): what       *)
(* next_event makes of an AstarteMessage, and the task that handles it.    *)
(***************************************************************************)
\* astarte_message::Payload and astarte_data_type::Data
NoPayload == [kind |-> "None"]
AstarteUnset == [kind |-> "AstarteUnset"]
AstarteData(data) == [kind |-> "AstarteData", data |-> data]
NoData == [kind |-> "None"]
AstarteIndividual(individual_data) ==
    [kind |-> "AstarteIndividual", individual_data |-> individual_data]
AstarteObject(object_data) == [kind |-> "AstarteObject", object_data |-> object_data]

AstarteMessage(interface_name, path, timestamp, payload) ==
    [kind |-> "message", interface_name |-> interface_name, path |-> path,
     timestamp |-> timestamp, payload |-> payload]

\* a timestamp that chrono cannot represent
InvalidTimestamp == "Invalid"

GrpcPayloads ==
    {NoPayload, AstarteUnset, AstarteData(NoData), AstarteData(AstarteIndividual(V1)),
     AstarteData(AstarteIndividual(V2)), AstarteData(AstarteIndividual(NoValue)),
     AstarteData(AstarteObject(ObjAB))}

GrpcMessages ==
    {AstarteMessage(t[1], t[2], ts, payload) :
        t \in {<<NameB, PathE>>, <<NameS, PathV>>, <<NameA, Path1n>>, <<NameB, PathV>>},
        ts \in {NoTimestamp, SomeTimestamp, InvalidTimestamp},
        payload \in GrpcPayloads}

\* Payload::take_data: the data of an AstarteData payload
take_data(payload) == IF payload.kind = "AstarteData" THEN payload.data ELSE NoData

\* TryFrom<AstarteMessage> for ReceivedEvent<GrpcReceivePayload>
received_event(message) ==
    IF message.payload.kind = "None" \/ take_data(message.payload).kind = "None"
    THEN [err |-> "ExpectedField", event |-> ReceivedEvent(<<>>, <<>>, NoData)]
    ELSE IF message.timestamp = InvalidTimestamp
    THEN [err |-> "DateConversion", event |-> ReceivedEvent(<<>>, <<>>, NoData)]
    ELSE [err |-> "ok",
          event |-> ReceivedEvent(message.interface_name, message.path,
                                  [data |-> take_data(message.payload),
                                   timestamp |-> message.timestamp])]

\* TryFrom<AstarteMessage> for AstarteDeviceDataEvent
device_data_event(message) ==
    LET failed == Delivered(message.interface_name, message.path, "ExpectedField", NoValue)
        payload == message.payload
    IN IF payload.kind = "None" THEN failed
       ELSE IF payload.kind = "AstarteUnset"
       THEN Delivered(message.interface_name, message.path, "ok", Unset)
       ELSE IF payload.data.kind = "None" THEN failed
       ELSE IF payload.data.kind = "AstarteObject"
       THEN Delivered(message.interface_name, message.path, "ok", payload.data.object_data)
       ELSE IF payload.data.individual_data = NoValue THEN failed
       ELSE Delivered(message.interface_name, message.path, "ok", payload.data.individual_data)

\* Grpc::deserialize_individual
grpc_deserialize_individual(payload) ==
    IF payload.data.kind # "AstarteIndividual"
    THEN [err |-> "DeserializationExpectedIndividual", value |-> NoValue]
    ELSE IF payload.data.individual_data = NoValue
    THEN [err |-> "ExpectedField", value |-> NoValue]
    ELSE [err |-> "ok", value |-> payload.data.individual_data]

\* Grpc::deserialize_object
grpc_deserialize_object(payload) ==
    IF payload.data.kind # "AstarteObject"
    THEN [err |-> "DeserializationExpectedObject", value |-> NoValue]
    ELSE [err |-> "ok", value |-> payload.data.object_data]

\* AstarteDeviceSdk::handle_event over the gRPC connection
handle_event_grpc(cat, st, event) ==
    LET fails(err) == [store |-> st,
                       item |-> Delivered(event.interface, event.path, err, NoValue)]
    IN IF ~PathValid(event.path) THEN fails("InvalidEndpoint")
       ELSE IF Get(cat, event.interface) = {} THEN fails("MissingInterface")
       ELSE LET interface == CHOOSE i \in Get(cat, event.interface) : TRUE IN
       IF interface.aggregation = "Object"
       THEN LET decoded == grpc_deserialize_object(event.payload)
            IN IF decoded.err # "ok" THEN fails(decoded.err)
               ELSE [store |-> st,
                     item |-> Delivered(event.interface, event.path, "ok", decoded.value)]
       ELSE IF as_mapping_ref(interface, event.path) = {} THEN fails("MissingMapping")
       ELSE LET decoded == grpc_deserialize_individual(event.payload)
            IN IF decoded.err # "ok" THEN fails(decoded.err)
               ELSE [store |-> IF interface.kind = "Property"
                               THEN store_prop(st, StoredProp(interface.interface_name,
                                                              event.path, decoded.value,
                                                              interface.version_major,
                                                              interface.ownership))
                               ELSE st,
                     item |-> Delivered(event.interface, event.path, "ok", decoded.value)]

\* the message that the stream of the hub holds next
InitConvert ==
    /\ interfaces = {IfaceA1, IfaceB, IfaceS}
    /\ store = {}
    /\ pc = "running"
    /\ tasks = <<>>
    /\ rx = <<>>
    /\ PURGE_PROPERTIES_TOPIC = <<>>
    /\ CLIENT_ID = NoClientId
    /\ last \in GrpcMessages
    /\ out = <<>>
    /\ res = "ok"
    /\ pre = {}
    /\ repeat = NotRepeated
    /\ loading = NoLoad
    /\ closed = FALSE
    /\ eventloop = NoHolder
    /\ stream = NoHolder
    /\ client = NoHolder
    /\ at = [t \in ConnTasks |-> "idle"]
    /\ retries = <<>>
    /\ debug_assertions = TRUE
    /\ node = "attached"
    /\ streaming = FirstStreaming
    /\ readers = {}
    /\ steps = 0

\* Grpc::next_event on Some(message): the message is converted, handle_events spawns
\* a task for the event, and the error of the conversion ends next_event and,
\* through `?`, handle_events
GrpcNextEvent ==
    /\ pc = "running"
    /\ steps = 0
    /\ LET r == received_event(last)
       IN /\ res' = r.err
          /\ tasks' = IF r.err = "ok" THEN Append(tasks, r.event) ELSE tasks
          /\ pc' = IF r.err = "ok" THEN "running" ELSE "ended"
    /\ steps' = 1
    /\ UNCHANGED <<interfaces, store, rx, PURGE_PROPERTIES_TOPIC, CLIENT_ID, last, out, pre,
                   repeat, loading, closed, conn_vars, env_vars>>

\* the task spawned for an event of the hub runs: handle_event, then the send on tx
GrpcRunTask ==
    /\ tasks # <<>>
    /\ Len(rx) < ChannelCapacity
    /\ LET handled == handle_event_grpc(interfaces, store, Head(tasks))
       IN /\ store' = handled.store
          /\ rx' = Append(rx, handled.item)
          /\ res' = handled.item.err
    /\ tasks' = Tail(tasks)
    /\ pre' = store
    /\ steps' = 2
    /\ UNCHANGED <<interfaces, pc, PURGE_PROPERTIES_TOPIC, CLIENT_ID, last, out, repeat,
                   loading, closed, conn_vars, env_vars>>

NextConvert ==
    \/ GrpcNextEvent
    \/ GrpcRunTask

SpecConvert == InitConvert /\ [][NextConvert]_vars

(***************************************************************************)
(* The gRPC connection: the Mutex of the stream and the Mutex of the       *)
(* client, as the receive loop (next_event), a caller of send_individual   *)
(* or send_object, and a caller of add_interface or remove_interface take  *)
(* them. A task that calls lock() is at a position of its own until the    *)
(* Mutex is free.                                                          *)
(***************************************************************************)
\* the outcomes of Streaming::message: a message, the end of the stream, an error
StreamMessages == {"Some", "None", "Status"}

\* what the steps of the gRPC connection leave alone
grpc_unchanged ==
    <<interfaces, store, tasks, rx, PURGE_PROPERTIES_TOPIC, CLIENT_ID, out, pre, repeat,
      loading, closed, eventloop, retries, debug_assertions, readers, steps>>

\* Grpc::next_message: the stream is locked, and message() waits for the hub
GrpcNextMessage ==
    /\ pc = "running"
    /\ at["receive"] = "idle"
    /\ stream = NoHolder
    /\ stream' = "receive"
    /\ at' = [at EXCEPT !["receive"] = "message"]
    /\ last' = PollOp("next_message")
    /\ res' = "ok"
    /\ UNCHANGED <<pc, client>>
    /\ UNCHANGED <<node, streaming>>
    /\ UNCHANGED grpc_unchanged

\* Grpc::next_event: message() returns and the lock of the stream is dropped; a
\* message is returned as an event, the end of the stream (the hub dropped the node)
\* starts the re-attach, and an error ends next_event
GrpcMessage ==
    /\ at["receive"] = "message"
    /\ stream' = NoHolder
    /\ \E message \in StreamMessages :
          /\ (message = "Some" => node = "attached")
          /\ at' = [at EXCEPT !["receive"] = IF message = "None" THEN "reattach" ELSE "idle"]
          /\ pc' = IF message = "Status" THEN "ended" ELSE "running"
          /\ res' = IF message = "Status" THEN "Grpc(Status)" ELSE "ok"
          /\ node' = IF message = "None" THEN "detached" ELSE node
          /\ last' = Op("message", <<>>, <<>>, NoValue, <<>>, EmptyPayload, message = "Some", 0)
    /\ UNCHANGED <<client, streaming>>
    /\ UNCHANGED grpc_unchanged

\* a re-attach that locks the client before the stream
reattach_lock_client_first(k) == IF k = 1 THEN "client" ELSE "stream"

\* Grpc::next_event, re-attach: the k-th Mutex that it locks
reattach_lock(k) == IF k = 1 THEN "stream" ELSE "client"

\* Grpc::next_event, re-attach: the stream is locked
GrpcReattachStream ==
    /\ at["receive"] = "reattach"
    /\ IF reattach_lock(1) = "stream"
       THEN stream = NoHolder /\ stream' = "receive" /\ UNCHANGED client
       ELSE client = NoHolder /\ client' = "receive" /\ UNCHANGED stream
    /\ at' = [at EXCEPT !["receive"] = "reattach_client"]
    /\ last' = PollOp("reattach_stream")
    /\ res' = "ok"
    /\ UNCHANGED pc
    /\ UNCHANGED <<node, streaming>>
    /\ UNCHANGED grpc_unchanged

\* Grpc::next_event, re-attach: the client is locked, and try_attach waits for the hub
GrpcReattachClient ==
    /\ at["receive"] = "reattach_client"
    /\ IF reattach_lock(2) = "client"
       THEN client = NoHolder /\ client' = "receive" /\ UNCHANGED stream
       ELSE stream = NoHolder /\ stream' = "receive" /\ UNCHANGED client
    /\ at' = [at EXCEPT !["receive"] = "try_attach"]
    /\ last' = PollOp("reattach_client")
    /\ res' = "ok"
    /\ UNCHANGED pc
    /\ UNCHANGED <<node, streaming>>
    /\ UNCHANGED grpc_unchanged

\* Grpc::next_event, re-attach: try_attach returns, both locks are dropped, and its
\* error ends next_event
GrpcReattach ==
    /\ at["receive"] = "try_attach"
    /\ stream' = NoHolder
    /\ client' = NoHolder
    /\ at' = [at EXCEPT !["receive"] = "idle"]
    /\ \E fail \in 0..1 :
          /\ pc' = IF fail = 1 THEN "ended" ELSE "running"
          /\ res' = IF fail = 1 THEN "Grpc(Status)" ELSE "ok"
          /\ node' = IF fail = 1 THEN node ELSE "attached"
          /\ streaming' = IF fail = 1 THEN streaming
                          ELSE [by |-> "receive", n |-> 1 - streaming.n]
          /\ last' = Op("reattach", <<>>, <<>>, NoValue, <<>>, EmptyPayload, FALSE, fail)
    /\ UNCHANGED grpc_unchanged

\* Publish for Grpc, send_individual and send_object: the call starts with
\* client.lock(), which takes a free Mutex at once and waits for a held one
GrpcSendCall ==
    /\ at["send"] = "idle"
    /\ at' = [at EXCEPT !["send"] = IF client = NoHolder THEN "send" ELSE "lock_client"]
    /\ client' = IF client = NoHolder THEN "send" ELSE client
    /\ last' = PollOp("send_call")
    /\ res' = "ok"
    /\ UNCHANGED <<pc, stream>>
    /\ UNCHANGED <<node, streaming>>
    /\ UNCHANGED grpc_unchanged

\* Publish for Grpc: the client the call waited for is locked, and send waits for the hub
GrpcSendLock ==
    /\ at["send"] = "lock_client"
    /\ client = NoHolder
    /\ client' = "send"
    /\ at' = [at EXCEPT !["send"] = "send"]
    /\ last' = PollOp("send_lock")
    /\ res' = "ok"
    /\ UNCHANGED <<pc, stream>>
    /\ UNCHANGED <<node, streaming>>
    /\ UNCHANGED grpc_unchanged

\* Publish for Grpc: send returns and the lock of the client is dropped
GrpcSend ==
    /\ at["send"] = "send"
    /\ client' = NoHolder
    /\ at' = [at EXCEPT !["send"] = "idle"]
    /\ \E fail \in 0..1 :
          /\ res' = IF fail = 1 THEN "Grpc(Status)" ELSE "ok"
          /\ last' = Op("grpc_send", <<>>, <<>>, NoValue, <<>>, EmptyPayload, FALSE, fail)
    /\ UNCHANGED <<pc, stream>>
    /\ UNCHANGED <<node, streaming>>
    /\ UNCHANGED grpc_unchanged

\* Register for Grpc, add_interface and remove_interface: try_detach_attach starts
\* with stream.lock()
GrpcRegistryCall ==
    /\ at["registry"] = "idle"
    /\ at' = [at EXCEPT !["registry"] = IF stream = NoHolder THEN "lock_client"
                                         ELSE "lock_stream"]
    /\ stream' = IF stream = NoHolder THEN "registry" ELSE stream
    /\ last' = PollOp("registry_call")
    /\ res' = "ok"
    /\ UNCHANGED <<pc, client>>
    /\ UNCHANGED <<node, streaming>>
    /\ UNCHANGED grpc_unchanged

\* Grpc::try_detach_attach: the stream the call waited for is locked
GrpcRegistryStream ==
    /\ at["registry"] = "lock_stream"
    /\ stream = NoHolder
    /\ stream' = "registry"
    /\ at' = [at EXCEPT !["registry"] = "lock_client"]
    /\ last' = PollOp("registry_stream")
    /\ res' = "ok"
    /\ UNCHANGED <<pc, client>>
    /\ UNCHANGED <<node, streaming>>
    /\ UNCHANGED grpc_unchanged

\* Grpc::try_detach_attach: the client is locked, and try_detach waits for the hub
GrpcRegistryClient ==
    /\ at["registry"] = "lock_client"
    /\ client = NoHolder
    /\ client' = "registry"
    /\ at' = [at EXCEPT !["registry"] = "try_detach"]
    /\ last' = PollOp("registry_client")
    /\ res' = "ok"
    /\ UNCHANGED <<pc, stream>>
    /\ UNCHANGED <<node, streaming>>
    /\ UNCHANGED grpc_unchanged

\* a try_detach_attach that goes on to attach whatever the detach returned
try_detach_unchecked(fail) == [at |-> "try_attach", returns |-> FALSE]

\* Grpc::try_detach_attach, `Grpc::try_detach(..).await?`: the error of the detach
\* returns from the call, and its success goes on to try_attach
try_detach(fail) ==
    IF fail = 1 THEN [at |-> "idle", returns |-> TRUE]
    ELSE [at |-> "try_attach", returns |-> FALSE]

\* Grpc::try_detach_attach: try_detach returns; its error ends the call, which drops
\* both locks
GrpcDetach ==
    /\ at["registry"] = "try_detach"
    /\ \E fail \in 0..1 :
          /\ at' = [at EXCEPT !["registry"] = try_detach(fail).at]
          /\ stream' = IF try_detach(fail).returns THEN NoHolder ELSE stream
          /\ client' = IF try_detach(fail).returns THEN NoHolder ELSE client
          /\ res' = IF fail = 1 THEN "Grpc(Status)" ELSE "ok"
          /\ node' = IF fail = 1 THEN node ELSE "detached"
          /\ last' = Op("detach", <<>>, <<>>, NoValue, <<>>, EmptyPayload, FALSE, fail)
    /\ UNCHANGED <<pc, streaming>>
    /\ UNCHANGED grpc_unchanged

\* Grpc::try_detach_attach: try_attach returns, the stream is replaced when it
\* succeeded, and both locks are dropped
GrpcAttach ==
    /\ at["registry"] = "try_attach"
    /\ stream' = NoHolder
    /\ client' = NoHolder
    /\ at' = [at EXCEPT !["registry"] = "idle"]
    /\ \E fail \in 0..1 :
          /\ res' = IF fail = 1 THEN "Grpc(Status)" ELSE "ok"
          /\ node' = IF fail = 1 THEN node ELSE "attached"
          /\ streaming' = IF fail = 1 THEN streaming
                          ELSE [by |-> "registry", n |-> 1 - streaming.n]
          /\ last' = Op("attach", <<>>, <<>>, NoValue, <<>>, EmptyPayload, FALSE, fail)
    /\ UNCHANGED pc
    /\ UNCHANGED grpc_unchanged

NextGrpc ==
    \/ GrpcNextMessage
    \/ GrpcMessage
    \/ GrpcReattachStream
    \/ GrpcReattachClient
    \/ GrpcReattach
    \/ GrpcSendCall
    \/ GrpcSendLock
    \/ GrpcSend
    \/ GrpcRegistryCall
    \/ GrpcRegistryStream
    \/ GrpcRegistryClient
    \/ GrpcDetach
    \/ GrpcAttach

SpecGrpc == Init /\ [][NextGrpc]_vars

\* The scheduling of the tasks: a task that can go on does go on, a call made on the
\* hub returns, and a task that waits for a Mutex gets it if it is free again and
\* again (the Mutex of tokio is fair).  Nothing makes the hub send a message: the
\* message() that GrpcMessage ends may wait for ever.
GrpcFairness ==
    /\ WF_vars(GrpcNextMessage)
    /\ SF_vars(GrpcReattachStream)
    /\ SF_vars(GrpcReattachClient)
    /\ WF_vars(GrpcReattach)
    /\ SF_vars(GrpcSendLock)
    /\ WF_vars(GrpcSend)
    /\ SF_vars(GrpcRegistryStream)
    /\ SF_vars(GrpcRegistryClient)
    /\ WF_vars(GrpcDetach)
    /\ WF_vars(GrpcAttach)

SpecGrpcFair == Init /\ [][NextGrpc]_vars /\ GrpcFairness

(***************************************************************************)
(* The property store on its own: the operations of PropertyStore called   *)
(* by concurrent tasks on one store, directly and through GrpcStore.       *)
(* load_prop is a query followed, on a major version mismatch, by a        *)
(* delete: other operations may run between the two.                       *)
(***************************************************************************)
\* the properties the operations are called with
StoreProps ==
    {StoredProp(NameA, Path1n, v, m, "Device") : v \in {V1, V2}, m \in {1, 2}}
        \cup {StoredProp(NameB, PathE, v, 1, "Server") : v \in {V1, V2}}

\* the property mappings the operations are called with
StoreKeys == {[interface |-> p.interface, path |-> p.path, ownership |-> p.ownership] :
                 p \in StoreProps}

StoreMajors == {p.interface_major : p \in StoreProps}

\* a call on the store, with what it returned (NoValue for None and for no result)
StoreOp(kind, interface, path, value, major, ownership, result) ==
    [kind |-> kind, name |-> interface, path |-> path, value |-> value, major |-> major,
     ownership |-> ownership, result |-> result]

\* the variables of the device that the store on its own leaves alone
device_vars ==
    <<interfaces, pc, tasks, rx, PURGE_PROPERTIES_TOPIC, CLIENT_ID, out, res, repeat, closed,
      conn_vars, env_vars>>

StoreProp ==
    /\ steps < MaxSteps
    /\ \E prop \in StoreProps :
          /\ store' = store_prop(store, prop)
          /\ last' = StoreOp("store_prop", prop.interface, prop.path, prop.value, prop.interface_major, prop.ownership, NoValue)
    /\ pre' = store
    /\ steps' = steps + 1
    /\ UNCHANGED <<loading, device_vars>>

UnsetProp ==
    /\ steps < MaxSteps
    /\ \E key \in StoreKeys :
          /\ store' = unset_prop(store, key.interface, key.path)
          /\ last' = StoreOp("unset_prop", key.interface, key.path, NoValue, 0, key.ownership, NoValue)
    /\ pre' = store
    /\ steps' = steps + 1
    /\ UNCHANGED <<loading, device_vars>>

DeleteProp ==
    /\ steps < MaxSteps
    /\ \E key \in StoreKeys :
          /\ store' = delete_prop(store, key.interface, key.path)
          /\ last' = StoreOp("delete_prop", key.interface, key.path, NoValue, 0, key.ownership, NoValue)
    /\ pre' = store
    /\ steps' = steps + 1
    /\ UNCHANGED <<loading, device_vars>>

DeleteInterface ==
    /\ steps < MaxSteps
    /\ \E key \in StoreKeys :
          /\ store' = delete_interface(store, key.interface)
          /\ last' = StoreOp("delete_interface", key.interface, <<>>, NoValue, 0, key.ownership, NoValue)
    /\ pre' = store
    /\ steps' = steps + 1
    /\ UNCHANGED <<loading, device_vars>>

Clear ==
    /\ steps < MaxSteps
    /\ store' = clear(store)
    /\ last' = StoreOp("clear", <<>>, <<>>, NoValue, 0, "", NoValue)
    /\ pre' = store
    /\ steps' = steps + 1
    /\ UNCHANGED <<loading, device_vars>>

\* load_prop runs its query: it returns, or goes on to delete the row
LoadProp ==
    /\ steps < MaxSteps
    /\ loading = NoLoad
    /\ \E key \in StoreKeys, interface_major \in StoreMajors :
          LET read == load_prop_read(store, key.interface, key.path, interface_major)
          IN /\ last' = StoreOp("load_prop", key.interface, key.path, NoValue, interface_major,
                                key.ownership, read.value)
             /\ loading' = IF read.mismatch
                           THEN [interface |-> key.interface, path |-> key.path,
                                 interface_major |-> interface_major]
                           ELSE NoLoad
    /\ pre' = store
    /\ steps' = steps + 1
    /\ UNCHANGED <<store, device_vars>>

\* load_prop deletes the row it found under another major version, and returns None
LoadPropDelete ==
    /\ loading # NoLoad
    /\ store' = delete_prop(store, loading.interface, loading.path)
    /\ last' = StoreOp("load_prop_delete", loading.interface, loading.path, NoValue,
                       loading.interface_major, "", NoValue)
    /\ loading' = NoLoad
    /\ pre' = store
    /\ UNCHANGED <<steps, device_vars>>

\* the writes of GrpcStore, the ownership being the one of the interface
GrpcStoreProp ==
    /\ steps < MaxSteps
    /\ \E prop \in StoreProps :
          /\ store' = grpc_store_prop(store, prop)
          /\ last' = StoreOp("grpc_store_prop", prop.interface, prop.path, prop.value, prop.interface_major, prop.ownership, NoValue)
    /\ pre' = store
    /\ steps' = steps + 1
    /\ UNCHANGED <<loading, device_vars>>

GrpcUnsetProp ==
    /\ steps < MaxSteps
    /\ \E key \in StoreKeys :
          /\ store' = grpc_unset_prop(store, key.interface, key.path, key.ownership)
          /\ last' = StoreOp("grpc_unset_prop", key.interface, key.path, NoValue, 0, key.ownership, NoValue)
    /\ pre' = store
    /\ steps' = steps + 1
    /\ UNCHANGED <<loading, device_vars>>

GrpcDeleteProp ==
    /\ steps < MaxSteps
    /\ \E key \in StoreKeys :
          /\ store' = grpc_delete_prop(store, key.interface, key.path, key.ownership)
          /\ last' = StoreOp("grpc_delete_prop", key.interface, key.path, NoValue, 0, key.ownership, NoValue)
    /\ pre' = store
    /\ steps' = steps + 1
    /\ UNCHANGED <<loading, device_vars>>

GrpcDeleteInterface ==
    /\ steps < MaxSteps
    /\ \E key \in StoreKeys :
          /\ store' = grpc_delete_interface(store, key.interface, key.ownership)
          /\ last' = StoreOp("grpc_delete_interface", key.interface, <<>>, NoValue, 0, key.ownership, NoValue)
    /\ pre' = store
    /\ steps' = steps + 1
    /\ UNCHANGED <<loading, device_vars>>

StoreNext ==
    \/ StoreProp
    \/ UnsetProp
    \/ DeleteProp
    \/ DeleteInterface
    \/ Clear
    \/ LoadProp
    \/ LoadPropDelete
    \/ GrpcStoreProp
    \/ GrpcUnsetProp
    \/ GrpcDeleteProp
    \/ GrpcDeleteInterface

SpecStore == Init /\ [][StoreNext]_vars

(***************************************************************************)
(* The properties of the handshake, of the purge and of the send pipeline. *)
(***************************************************************************)
\* the last step was a ConnAck of a fresh session, or of a resumed one
FreshConnAck == last.kind = "connack" /\ ~last.session_present

ResumedConnAck == last.kind = "connack" /\ last.session_present

\* the calls the last step made on the client, in the order it made them
Handshake == ClientCalls(out)

\* the step of the handshake a call belongs to (0: to none)
Phase(c) ==
    IF c.op = "subscribe" /\ c.topic = PurgeTopic THEN 1
    ELSE IF c.op = "subscribe" THEN 2
    ELSE IF c.op = "publish" /\ c.topic = ClientId THEN 3
    ELSE IF c.op = "publish" /\ c.topic = EmptyCacheTopic THEN 4
    ELSE IF c.op = "publish" THEN 5
    ELSE 0

PhaseCalls(n) == {k \in 1..Len(Handshake) : Phase(Handshake[k]) = n}

Reached(n) == \E k \in 1..Len(Handshake) : Phase(Handshake[k]) >= n

\* "<client_id>/<iface>/#" for every server-owned interface of the catalog
ServerFilters ==
    {ClientId \o Slash \o i.interface_name \o <<"/", "#">> :
        i \in {x \in interfaces : x.ownership = "Server"}}

\* C1: on a ConnAck with session_present = false the handshake is made in this
\* order, each call starting only after the one before it succeeded: subscribe
\* to the purge topic, subscribe to "<client_id>/<iface>/#" for every
\* server-owned interface, publish the introspection string on "<client_id>",
\* publish "1" on "<client_id>/control/emptyCache", then publish the surviving
\* device-owned properties.
C1_HandshakeOrder ==
    FreshConnAck =>
        /\ Handshake # <<>>
        /\ \A k \in 1..Len(Handshake) : Phase(Handshake[k]) \in 1..5
        /\ \A j, k \in 1..Len(Handshake) :
              j < k => Phase(Handshake[j]) <= Phase(Handshake[k]) /\ Handshake[j].ok
        /\ Cardinality(PhaseCalls(1)) = 1
        /\ \A k \in PhaseCalls(2) : Handshake[k].topic \in ServerFilters
        /\ \A j, k \in PhaseCalls(2) : j # k => Handshake[j].topic # Handshake[k].topic
        /\ Reached(3) =>
              /\ {Handshake[k].topic : k \in PhaseCalls(2)} = ServerFilters
              /\ Cardinality(PhaseCalls(3)) = 1
              /\ \A k \in PhaseCalls(3) :
                    Handshake[k].payload = Text(get_introspection_string(interfaces))
        /\ Reached(4) =>
              /\ Cardinality(PhaseCalls(4)) = 1
              /\ \A k \in PhaseCalls(4) : Handshake[k].payload = Text(<<"1">>)
        /\ (res = "ok") = (Reached(4) /\ \A k \in 1..Len(Handshake) : Handshake[k].ok)

\* a fresh-session handshake that went through all its steps, properties included
C1_Witness ==
    /\ FreshConnAck
    /\ res = "ok"
    /\ PhaseCalls(2) # {}
    /\ PhaseCalls(5) # {}

\* C2: on a ConnAck with session_present = true nothing is reconciled: no
\* subscribe, no introspection, no emptyCache, no property is sent, and the
\* store is not read.
C2_ResumedSessionDoesNothing ==
    ResumedConnAck =>
        /\ out = <<>>
        /\ res = "ok"
        /\ store = pre
        /\ pc = "running"

\* a resumed session of a device that has properties a fresh session would send
C2_Witness ==
    /\ ResumedConnAck
    /\ filter_device_properties(load_all_props(store), interfaces) # {}
    /\ filter_server_interfaces(interfaces) # {}

\* C3: a failure of a step of the handshake is propagated as a connection
\* error and the handshake is retried from its first step; the receive loop is
\* not ended by the failure.
C3_HandshakeFailureKeepsLoop ==
    (FreshConnAck /\ res # "ok") => (res = "ClientError" /\ pc = "running")

\* the stored properties that hold a value and whose interface is in the catalog,
\* owned by the device, at the major version they were stored under
Survivors ==
    {r \in pre :
        /\ r.value \notin {Unset, NoValue}
        /\ \E i \in interfaces :
              /\ i.interface_name = r.interface
              /\ i.ownership = "Device"
              /\ i.version_major = r.interface_major}

IsRepublishOf(c, r) ==
    /\ c.op = "publish"
    /\ c.topic = ClientId \o Slash \o r.interface \o r.path
    /\ c.payload = Bson(r.value)

PurgeStep == last.kind = "publish" /\ last.topic = PurgeTopic

\* the set S a well-formed directive lists
Listed == split(last.payload.text, ";")

Key(r) == r.interface \o r.path

HasValue(r) == r.value \notin {Unset, NoValue}

\* C5: after a purge-properties directive listing the set S has been processed,
\* every device-owned property (I,P) stored before remains in the store if and
\* only if I followed by P is an element of S.
C5_PurgeSetComplementary ==
    (PurgeStep /\ res = "ok") =>
        \A r \in pre :
            (r.ownership = "Device" /\ HasValue(r)) => ((r \in store) = (Key(r) \in Listed))

\* a purge that kept a listed device property and deleted one that was not listed
C5_Witness ==
    /\ PurgeStep
    /\ res = "ok"
    /\ \E r \in pre : r.ownership = "Device" /\ HasValue(r) /\ Key(r) \in Listed /\ r \in store
    /\ \E r \in pre : r.ownership = "Device" /\ HasValue(r) /\ Key(r) \notin Listed /\ r \notin store

\* C6: a purge-properties directive deletes only device-owned properties: every
\* server-owned stored property is left as it was, whatever the directive lists.
C6_PurgeKeepsServerProperties ==
    PurgeStep => \A r \in pre : r.ownership = "Server" => r \in store

MalformedError(payload) ==
    IF payload.kind \in {"short", "empty"} THEN "Properties(PayloadTooShort)"
    ELSE IF payload.kind = "zlib_not_utf8" THEN "Properties(Utf8)"
    ELSE IF payload.kind # "zlib" THEN "Properties(Decompress)"
    ELSE ""

\* C8: when the payload of a purge is shorter than 4 bytes, is not zlib data or
\* is not UTF-8, the error of that case is returned and no stored property is
\* deleted or changed.
C8_MalformedPurgeChangesNothing ==
    (PurgeStep /\ MalformedError(last.payload) # "") =>
        /\ res = MalformedError(last.payload)
        /\ store = pre

\* a malformed purge received while properties that no list names are stored
C8_Witness ==
    /\ PurgeStep
    /\ res = "Properties(Decompress)"
    /\ load_all_props(pre) # {}

\* "/consumer/properties/another"
AnotherPath == Slash \o S_consumer \o Slash \o S_properties \o Slash \o S_another

\* C9: a received publish is a purge directive if and only if its topic is
\* exactly "<client_id>/control/consumer/properties"; a topic that only starts
\* with it is parsed as interface "control" with the rest as the path, and
\* purges nothing.
C9_PurgeOnlyOnExactTopic ==
    last.kind = "publish" =>
        /\ (out = <<LoadAllPropsCall>>) = (last.topic = PurgeTopic)
        /\ last.topic # PurgeTopic => store = pre
        /\ last.topic = AlmostPurgeTopic =>
              /\ res = "ok"
              /\ tasks # <<>>
              /\ tasks[Len(tasks)] = ReceivedEvent(S_control, AnotherPath, last.payload)

\* a publish under the purge topic, with an empty list, while properties are stored
C9_Witness ==
    /\ last.kind = "publish"
    /\ last.topic = AlmostPurgeTopic
    /\ load_all_props(store) # {}

\* C10: of two consecutive send(I,P,V) calls with the same value on a property
\* mapping, the second returns success without transmitting: the two calls
\* make one publish at most, and exactly one when the first one transmitted.
C10_IdempotentSend ==
    (last.kind = "send" /\ repeat.is) =>
        /\ res = "ok"
        /\ out = <<>>
        /\ store = pre
        /\ repeat.first + Len(out) <= 1

\* the second of two sends of a value that was not stored before the first
C10_Witness ==
    /\ last.kind = "send"
    /\ repeat.is
    /\ repeat.first = 1
    /\ get_property(interfaces, last.name) # {}

\* the last step was a send or an unset on a mapping of a property interface
OnPropertyMapping ==
    /\ last.kind \in {"send", "unset"}
    /\ \E i \in get_property(interfaces, last.name) : as_mapping_ref(i, last.path) # {}

\* what get_property(I,P) returns for the property of the last step, on a store
Observed(st) == PropertyRegistry_get_property(interfaces, st, last.name, last.path)

\* C11: for a send on a property the store is updated with the new value if and
\* only if the transport sent it: on a transport error the error is returned
\* and the stored value of (I,P) is as it was, so that a retry of the same
\* value is transmitted again; on success get_property(I,P) returns the value.
C11_StoreFollowsTransport ==
    (OnPropertyMapping /\ last.kind = "send") =>
        /\ res = "ClientError" =>
              /\ Observed(store).value = Observed(pre).value
              /\ Observed(store).value # last.value
              /\ send_store_impl(interfaces, store, last.name, last.path, last.value, 0).out # <<>>
        /\ res = "ok" =>
              /\ Observed(store).res = "ok"
              /\ Observed(store).value = last.value

\* a send of a new value that the transport refused while another value was stored
C11_Witness ==
    /\ OnPropertyMapping
    /\ last.kind = "send"
    /\ res = "ClientError"
    /\ Observed(pre).value \notin {NoValue, Unset}

\* C12: send(interface, path, value) publishes on "<client_id>/<interface_name><path>"
\* with the path of the caller, also when the endpoint of the mapping has a
\* parameter: the endpoint template never appears in the topic.
C12_TopicHasConcretePath ==
    (last.kind \in {"send", "unset"} /\ out # <<>>) =>
        \A k \in 1..Len(out) : out[k].topic = ClientId \o Slash \o last.name \o last.path

\* C13: after a successful send on a device property followed by unset(I,P),
\* one publish with an empty payload was made on the same topic, load_prop(I,P)
\* returns None and device_props_with_unset has a tombstone for (I,P).
C13_UnsetRoundTrip ==
    (last.kind = "unset" /\ repeat.is /\ res = "ok") =>
        /\ Len(ClientCalls(out)) = 1
        /\ out[1].op = "publish"
        /\ out[1].payload = EmptyPayload
        /\ \A k \in 1..Len(repeat.sent) : out[1].topic = repeat.sent[k].topic
        /\ \A i \in Get(interfaces, last.name) :
              load_prop(store, last.name, last.path, i.version_major).value = NoValue
        /\ \E r \in device_props_with_unset(store) :
              r.interface = last.name /\ r.path = last.path /\ ~HasValue(r)

\* C14: after a successful send of V on a device property whose mapping allows
\* unset, get_property(I,P) returns Some(V); after a following successful
\* unset(I,P) it returns Some(Unset), not None and not an error.
C14_GetPropertyAfterSetAndUnset ==
    /\ (OnPropertyMapping /\ last.kind = "send" /\ res = "ok") =>
          (Observed(store).res = "ok" /\ Observed(store).value = last.value)
    /\ (OnPropertyMapping /\ last.kind = "unset" /\ repeat.is /\ res = "ok") =>
          (Observed(store).res = "ok" /\ Observed(store).value = Unset)

\* an unset that followed a send which had transmitted its value
C14_Witness ==
    /\ last.kind = "unset"
    /\ repeat.is
    /\ repeat.first = 1
    /\ res = "ok"
    /\ out # <<>>

(***************************************************************************)
(* The properties of the store.                                            *)
(***************************************************************************)
\* the row stored before the last operation for the property it was called with
RowBefore == Row(pre, last.name, last.path)

\* C15: store_prop is an upsert keyed by (interface, path): the store holds at
\* most one entry per (interface, path), and load_prop(I,P,m) with the stored
\* major m returns the value of the most recent store_prop for (I,P).
C15_StorePropIsUpsert ==
    /\ \A r1, r2 \in store : (r1.interface = r2.interface /\ r1.path = r2.path) => r1 = r2
    /\ last.kind = "store_prop" =>
          load_prop(store, last.name, last.path, last.major) =
              [value |-> last.value, store |-> store]

\* a store_prop over a row that held another value under another major version
C15_Witness ==
    /\ last.kind = "store_prop"
    /\ \E r \in RowBefore : r.value # last.value /\ r.interface_major # last.major

\* C16: load_prop called with a major version other than the stored one returns
\* None and deletes the stored entry: a following load_prop, with the stored
\* major or with the new one, returns None too.
C16_MismatchDeletes ==
    /\ (last.kind = "load_prop" /\ \E r \in RowBefore : r.interface_major # last.major) =>
          (last.result = NoValue /\ loading # NoLoad)
    /\ last.kind = "load_prop_delete" =>
          /\ Row(store, last.name, last.path) = {}
          /\ \A m \in StoreMajors :
                load_prop(store, last.name, last.path, m) = [value |-> NoValue, store |-> store]

\* a load_prop that deleted a row stored with a value under another major version
C16_Witness ==
    /\ last.kind = "load_prop_delete"
    /\ \E r \in RowBefore : r.interface_major # last.major /\ r.value # NoValue

\* C17: the delete of load_prop on a major version mismatch is atomic with its
\* read: an entry stored with the expected major, by a store_prop that runs
\* concurrently, is never deleted by the mismatch path.
C17_MismatchDeleteIsAtomic ==
    last.kind = "load_prop_delete" => \A r \in RowBefore : r.interface_major # last.major

\* C18: after unset_prop on a stored device-owned property the entry is kept as
\* a tombstone: load_prop returns None, load_all_props, device_props,
\* server_props and interface_props do not return it, and
\* device_props_with_unset returns it with no value and with its interface,
\* path, interface_major and ownership as they were.
C18_UnsetPropKeepsTombstone ==
    (last.kind = "unset_prop" /\ last.ownership = "Device") =>
        \A r0 \in RowBefore :
            /\ load_prop(store, last.name, last.path, r0.interface_major).value = NoValue
            /\ \A r \in load_all_props(store) \cup device_props(store) \cup server_props(store)
                            \cup interface_props(store, last.name) :
                  ~(r.interface = last.name /\ r.path = last.path)
            /\ {r \in device_props_with_unset(store) :
                   r.interface = last.name /\ r.path = last.path}
                  = {[r0 EXCEPT !.value = NoValue]}

\* an unset_prop of a device-owned property that was stored with a value
C18_Witness ==
    /\ last.kind = "unset_prop"
    /\ last.ownership = "Device"
    /\ \E r \in RowBefore : r.value \notin {NoValue, Unset}

\* what the write of the last operation does on the local store when it is applied to it
AppliedLocally ==
    CASE last.kind = "grpc_store_prop" ->
            store_prop(pre, StoredProp(last.name, last.path, last.value, last.major,
                                       last.ownership))
      [] last.kind = "grpc_unset_prop" -> unset_prop(pre, last.name, last.path)
      [] last.kind = "grpc_delete_prop" -> delete_prop(pre, last.name, last.path)
      [] last.kind = "grpc_delete_interface" -> delete_interface(pre, last.name)
      [] OTHER -> pre

GrpcWrites == {"grpc_store_prop", "grpc_unset_prop", "grpc_delete_prop", "grpc_delete_interface"}

\* C19: on the gRPC store a write for a device-owned property (store_prop,
\* unset_prop, delete_prop, delete_interface) leaves the local store as it was,
\* and the same write for a server-owned property is applied to it.
C19_GrpcStoreIgnoresDeviceWrites ==
    last.kind \in GrpcWrites =>
        IF last.ownership = "Device" THEN store = pre ELSE store = AppliedLocally

\* a store_prop of a device-owned property that would have changed the local store
C19_Witness ==
    /\ last.kind = "grpc_store_prop"
    /\ last.ownership = "Device"
    /\ AppliedLocally # pre

(***************************************************************************)
(* The order of the events on the consumer channel.                        *)
(***************************************************************************)
\* C20: the received events are delivered on the consumer channel in the order
\* next_event returned them, for every interleaving of the tasks that dispatch
\* them: the task that delivers is the task of the oldest event not yet delivered.
C20_DeliveredInOrder ==
    [][Len(tasks') < Len(tasks) => (tasks' = Tail(tasks) /\ rx' # rx)]_vars

(***************************************************************************)
(* The receive pipeline.                                                   *)
(***************************************************************************)
\* C21: when the consumer channel is closed, handle_events ends its loop: once a
\* task has found the channel closed, handle_events has returned and polls no
\* further event, and the task has not panicked.
C21_ClosedChannelEndsLoop ==
    (closed /\ last.kind = "task") => (pc = "ended" /\ res # ChannelDropped)

\* C22: a received publish whose interface is not in the catalog is dropped:
\* the task that handles it delivers nothing on the consumer channel and leaves
\* the store as it was, and the receive loop goes on.
C22_UnknownInterfaceDropped ==
    [][(last'.kind = "task" /\ Get(interfaces, last'.name) = {})
          => (rx' = rx /\ store' = store /\ pc' = "running")]_vars

\* the value that the payload of the event handled by the last task holds
ReceivedValue == IF last.payload.kind = "empty" THEN Unset ELSE last.payload.v

\* C23: the receive pipeline changes the store if and only if the publish is on
\* a property interface and decodes: then the decoded value (a tombstone when
\* it is Unset) is stored under (interface, concrete path) with the major
\* version of the interface in the catalog, and it is in the store when the
\* event is delivered; a publish on a datastream, or one that does not decode,
\* leaves the store as it was.
C23_ReceiveStoresProperties ==
    (last.kind = "task" /\ ~closed) =>
        IF res = "ok" /\ get_property(interfaces, last.name) # {}
        THEN \A i \in get_property(interfaces, last.name) :
                /\ Row(store, last.name, last.path)
                      = {StoredProp(last.name, last.path, ReceivedValue, i.version_major,
                                    i.ownership)}
                /\ store \ Row(store, last.name, last.path) = pre \ Row(pre, last.name, last.path)
                /\ (ReceivedValue = Unset) =
                      (\A r \in Row(store, last.name, last.path) : IsTombstone(r))
                /\ rx # <<>>
                /\ rx[Len(rx)] = Delivered(last.name, last.path, "ok", ReceivedValue)
        ELSE store = pre

\* a received unset of a property that was stored with a value
C23_Witness ==
    /\ last.kind = "task"
    /\ ~closed
    /\ res = "ok"
    /\ ReceivedValue = Unset
    /\ \E r \in Row(pre, last.name, last.path) : HasValue(r)
    /\ \E r \in Row(store, last.name, last.path) : IsTombstone(r)

\* the value that the payload of the event of a task holds
ValueOf(op) == IF op.payload.kind = "empty" THEN Unset ELSE op.payload.v

ReceiveErrors ==
    {"InvalidEndpoint", "MissingMapping", "Payload(Unset)", "Payload(Decode)", "Payload(Type)",
     "Payload(UnknownKey)", "Payload(MissingKey)"}

\* C24: for every event on an interface of the catalog exactly one item is
\* delivered on the consumer channel: Ok with the interface and the path of the
\* publish and the decoded Individual or Object data when it decodes, Err when
\* the path, the mapping lookup or the decoding fails; a failure does not stop
\* the receive loop.
C24_OneItemPerEvent ==
    [][(last'.kind = "task" /\ ~closed /\ Get(interfaces, last'.name) # {})
          => /\ pc' = pc
             /\ Len(rx') = Len(rx) + 1
             /\ SubSeq(rx', 1, Len(rx)) = rx
             /\ LET item == rx'[Len(rx')]
                IN /\ item.interface = last'.name
                   /\ item.path = last'.path
                   /\ item.err = res'
                   /\ IF res' = "ok" THEN item.data = ValueOf(last')
                      ELSE item.data = NoValue /\ res' \in ReceiveErrors]_vars

\* an aggregate received on the object interface and delivered
C24_Witness ==
    /\ last.kind = "task"
    /\ ~closed
    /\ res = "ok"
    /\ rx # <<>>
    /\ rx[Len(rx)] = Delivered(NameO, Path1, "ok", ObjAB)

(***************************************************************************)
(* The registry of interfaces.                                             *)
(***************************************************************************)
\* C25: after remove_interface(I) succeeded for a property interface I the
\* store holds no property of I, at any path, and the properties of the other
\* interfaces are as they were.
C25_RemoveDeletesProperties ==
    (last.kind = "remove_interface" /\ res = "ok") =>
        /\ \A r \in store : r.interface # last.name
        /\ {r \in store : r.interface # last.name} = {r \in pre : r.interface # last.name}

\* the call publishes on the client id an introspection that lists the catalog
IsIntrospectionOf(call, cat) ==
    /\ call.op = "publish"
    /\ call.topic = realm \o <<"/">> \o device_id
    /\ call.payload.kind = "text"
    /\ IF cat = {} THEN call.payload.text = <<>>
       ELSE split(call.payload.text, ";") = {IntrospectionEntry(i) : i \in cat}

FilterOf(name) == realm \o <<"/">> \o device_id \o <<"/">> \o name \o <<"/", "#">>

\* C26: add_interface of a server-owned interface subscribes to
\* <client_id>/<name>/# and then publishes the introspection of the catalog
\* that includes it; remove_interface publishes the introspection of the
\* catalog without it and then unsubscribes from <client_id>/<name>/#; for a
\* device-owned interface no subscribe and no unsubscribe is issued.
C26_RegistryCallOrder ==
    [][/\ (last'.kind = "add_interface" /\ res' = "ok") =>
            \A i \in Get(interfaces', last'.name) :
                IF i.ownership = "Server"
                THEN /\ Len(out') = 2
                     /\ out'[1] = Subscribe(FilterOf(last'.name))
                     /\ IsIntrospectionOf(out'[2], interfaces')
                ELSE /\ Len(out') = 1
                     /\ IsIntrospectionOf(out'[1], interfaces')
       /\ (last'.kind = "remove_interface" /\ res' = "ok") =>
            /\ Get(interfaces', last'.name) = {}
            /\ \A i \in Get(interfaces, last'.name) :
                  IF i.ownership = "Server"
                  THEN /\ Len(out') = 2
                       /\ IsIntrospectionOf(out'[1], interfaces')
                       /\ out'[2] = Unsubscribe(FilterOf(last'.name))
                  ELSE /\ Len(out') = 1
                       /\ IsIntrospectionOf(out'[1], interfaces')]_vars

\* a server-owned interface was removed and another one is left in the catalog
C26_Witness ==
    /\ last.kind = "remove_interface"
    /\ res = "ok"
    /\ Len(out) = 2
    /\ out[2] = Unsubscribe(FilterOf(last.name))
    /\ interfaces # {}

\* the version of a is lower than the version of b
Lower(a, b) ==
    \/ a.version_major < b.version_major
    \/ a.version_major = b.version_major /\ a.version_minor < b.version_minor

\* C27: the add of the catalog enforces the version-change rules against the
\* entry of the same name: an interface with a lower major, or the same major
\* and a lower minor, is rejected and the catalog is unchanged; the same
\* version again or a newer one is installed; so the (major, minor) installed
\* for a name never decreases.
C27_VersionsNeverDecrease ==
    [][last'.kind = "interface_file" =>
          LET new == last'.interface
              prevs == {i \in interfaces : i.interface_name = new.interface_name}
          IN /\ (\E prev \in prevs : Lower(new, prev)) => (interfaces' = interfaces /\ res' # "ok")
             /\ (\A prev \in prevs : ~Lower(new, prev)) =>
                   /\ res' = "ok"
                   /\ interfaces' = (interfaces \ prevs) \cup {new}
             /\ \A prev \in interfaces :
                   \E cur \in interfaces' :
                      cur.interface_name = prev.interface_name /\ ~Lower(cur, prev)]_vars

\* an interface of the same major and a lower minor than the installed one was rejected
C27_Witness ==
    /\ last.kind = "interface_file"
    /\ res # "ok"
    /\ \E prev \in interfaces :
          /\ prev.interface_name = last.interface.interface_name
          /\ prev.version_major = last.interface.version_major
          /\ prev.version_minor > last.interface.version_minor

\* C28: handle_events ends with an error of the poll only when one of the polls failed
\* for the credentials or the identity of the device; a poll that fails for the network
\* is retried and its failure is never returned by next_event
C28_OnlyFatalPollErrorEndsSession ==
    pc = "ended" => \E i \in 1..Len(retries) : retries[i] \in FatalPollErrors

\* a task waits for a Mutex of the connection that the receive loop holds
WaitsForReceiveLoop(t) ==
    \/ at[t] = "lock_client" /\ client = "receive"
    \/ at[t] = "lock_stream" /\ stream = "receive"

\* C29: a send or send_object never waits for a lock that the receive loop holds
\* while it waits for the network
C29_SendNeverWaitsForReceiveLoop == ~WaitsForReceiveLoop("send")

\* the errors of a send that fails validation
ValidationErrors ==
    {"MissingInterface", "MissingMapping", "Aggregation", "Payload(Type)", "Payload(Unset)",
     "Payload(UnknownKey)", "Payload(MissingKey)"}

\* the value is sent on an interface or a path the catalog does not have, or is not
\* one the mapping accepts
InvalidIndividual(interface_name, path, value) ==
    \/ Get(interfaces, interface_name) = {}
    \/ \E i \in Get(interfaces, interface_name) :
          \/ as_mapping_ref(i, path) = {}
          \/ \E m \in as_mapping_ref(i, path) : serialize_individual(i, m, value).err # "ok"

\* the object is sent on an interface the catalog does not have or that is not an
\* object, or its keys or their types are not those of the mappings
InvalidObject(interface_name, path, value) ==
    \/ Get(interfaces, interface_name) = {}
    \/ \E i \in Get(interfaces, interface_name) :
          \/ as_object_ref(i) = {}
          \/ \E o \in as_object_ref(i) : serialize_object(o, path, value).err # "ok"

\* the last step is a send, an unset or a send_object that validation has to reject
LastCallInvalid ==
    \/ last.kind \in {"send", "unset"} /\ InvalidIndividual(last.name, last.path, last.value)
    \/ last.kind = "send_object" /\ InvalidObject(last.name, last.path, last.value)

\* C30: a send, unset or send_object that fails validation returns an
\* error, transmits nothing and leaves the store unchanged
C30_InvalidSendChangesNothing ==
    LastCallInvalid =>
        /\ res \in ValidationErrors
        /\ ClientCalls(out) = <<>>
        /\ store = pre

\* the last step passed a timestamp to a mapping (or to an object with a mapping)
\* that has explicit_timestamp = false
TimestampNotAllowed ==
    \/ /\ last.kind = "send_with_timestamp"
       /\ \E i \in Get(interfaces, last.name) :
          \E m \in as_mapping_ref(i, last.path) : ~m.explicit_timestamp
    \/ /\ last.kind = "send_object_with_timestamp"
       /\ \E i \in Get(interfaces, last.name) :
             as_object_ref(i) # {} /\ \E m \in i.mappings : ~m.explicit_timestamp

\* C31: send_with_timestamp and send_object_with_timestamp on a mapping with
\* explicit_timestamp = false return an error and publish nothing, whatever the
\* build profile
C31_TimestampPolicyEnforced ==
    TimestampNotAllowed => (res # "ok" /\ ClientCalls(out) = <<>>)

\* the step polled a packet that next_event consumes: a ConnAck, a publish on the
\* purge topic or any other packet
ConsumedPacket ==
    \/ last'.kind \in {"connack", "packet"}
    \/ last'.kind = "publish" /\ last'.topic = PurgeTopic

\* C32: next_event returns a ReceivedEvent only for a publish on a topic other than
\* the purge topic; a ConnAck, a purge publish and every other packet are consumed
\* inside the transport: no ReceivedEvent and no consumer event comes of them, and
\* unless they fail the transport keeps polling.
C32_OnlyDataPublishReturns ==
    [][/\ tasks' # tasks /\ last'.kind # "task"
          => /\ last'.kind = "publish"
             /\ last'.topic # PurgeTopic
             /\ res' = "ok"
       /\ ConsumedPacket /\ steps' # steps
          => /\ tasks' = tasks
             /\ rx' = rx
             /\ (res' = "ok" => pc' = "running")
             /\ (res' # "ok" => pc' = "ended")]_vars

\* a purge directive was reconciled, properties were deleted, and the transport
\* polls on with no event handed over
C32_Witness ==
    /\ last.kind = "publish"
    /\ last.topic = PurgeTopic
    /\ res = "ok"
    /\ pc = "running"
    /\ store # pre
    /\ tasks = <<>>
    /\ rx = <<>>

\* next_event has converted an unset message on the property (B, /e)
UnsetMessageConverted ==
    /\ steps > 0
    /\ last.payload = AstarteUnset
    /\ last.interface_name = NameB
    /\ last.path = PathE
    /\ last.timestamp # InvalidTimestamp

\* C33: a message of the hub with the unset payload for a property is turned by
\* next_event into a ReceivedEvent, not into an error, and reaches the consumer as
\* Individual(Unset), as the conversion to AstarteDeviceDataEvent has it.
C33_UnsetMessageDelivered ==
    UnsetMessageConverted =>
        /\ pc = "running"
        /\ steps = 1 => res = "ok" /\ Len(tasks) = 1
        /\ steps = 2 => rx = <<device_data_event(last)>> /\ rx[1].data = Unset

\* add_interface or remove_interface is between its detach and its attach
BetweenDetachAndAttach == at["registry"] = "try_attach"

\* C34: over gRPC add_interface and remove_interface detach and attach the node
\* while they hold the lock of the stream, so that no task reads a message between
\* the detach and the attach; the detach always precedes the attach, and when the
\* detach fails no attach is attempted and the stream is left as it was.
C34_DetachAttachUnderStreamLock ==
    [][/\ at'["registry"] \in {"try_detach", "try_attach"}
          => /\ stream' = "registry"
             /\ client' = "registry"
             /\ at'["receive"] \notin {"message", "reattach_client", "try_attach"}
       /\ BetweenDetachAndAttach' /\ ~BetweenDetachAndAttach
          => /\ at["registry"] = "try_detach"
             /\ last'.kind = "detach"
             /\ last'.fail = 0
             /\ node' = "detached"
       /\ last'.kind = "detach" /\ last'.fail = 1 /\ at["registry"] = "try_detach"
          => /\ at'["registry"] = "idle"
             /\ res' # "ok"
             /\ streaming' = streaming
             /\ node' = node
       /\ streaming'.by = "registry" /\ streaming' # streaming
          => BetweenDetachAndAttach /\ last'.kind = "attach" /\ node' = "attached"]_vars

\* the registry call re-attached the node and replaced the stream while the receive
\* loop was about to read the next message
C34_Witness ==
    /\ last.kind = "attach"
    /\ last.fail = 0
    /\ streaming.by = "registry"
    /\ node = "attached"
    /\ at["registry"] = "idle"
    /\ at["receive"] = "idle"
    /\ at["send"] = "lock_client"

\* the last call was an add_interface that the catalog rejected
AddRejected == last.kind = "add_interface" /\ res = "Interface(Version)"

\* C35: an add_interface that the catalog rejects has no effect: the catalog is
\* as it was, no introspection is published and no subscription is issued.
C35_RejectedAddHasNoEffect ==
    [][AddRejected' /\ steps' # steps
          => /\ interfaces' = interfaces
             /\ ClientCalls(out') = <<>>]_vars

\* the introspections published so far, in the order of their publishes
Introspections == SelectSeq(out, LAMBDA c : c.op = "publish" /\ c.topic = ClientId)

\* every registry call of the concurrent tasks has returned Ok
AllRegistryCallsDone == \A t \in RegistryTasks : at[t].pc = "done" /\ at[t].res = "ok"

\* C36: when several add_interface and remove_interface calls ran concurrently and
\* all of them have completed, the introspection that was published last is the
\* introspection string of the catalog as it is then.
C36_LastIntrospectionIsFinalCatalog ==
    AllRegistryCallsDone =>
        /\ Introspections # <<>>
        /\ Introspections[Len(Introspections)].payload
              = Text(get_introspection_string(interfaces))

\* two calls changed the catalog one after the other before either published, and
\* both have published
C36_Witness ==
    /\ AllRegistryCallsDone
    /\ Len(Introspections) = 2
    /\ at["t1"].call.op = "add_interface"
    /\ at["t2"].call.op = "remove_interface"
    /\ at["t1"].introspection = at["t2"].introspection
    /\ interfaces # {IfaceA1, IfaceB}

\* C37: over gRPC a call of add_interface or remove_interface completes in the end,
\* also while the receive loop waits in next_event for a message that the hub does
\* not send: the detach and attach never wait for ever for the lock of the stream.
C37_RegistryCallCompletes ==
    (at["registry"] = "lock_stream") ~> (at["registry"] = "idle")

\* the Mutex that task t is waiting for, or NoHolder when it waits for none
WaitsFor(t) ==
    IF t = "receive" /\ at[t] = "reattach" THEN reattach_lock(1)
    ELSE IF t = "receive" /\ at[t] = "reattach_client" THEN reattach_lock(2)
    ELSE IF at[t] = "lock_stream" THEN "stream"
    ELSE IF at[t] = "lock_client" THEN "client"
    ELSE NoHolder

\* the task that holds the Mutex
HolderOf(lock) == IF lock = "stream" THEN stream ELSE client

\* task t waits for a Mutex that another task holds
Blocked(t) == WaitsFor(t) # NoHolder /\ HolderOf(WaitsFor(t)) \notin {NoHolder, t}

\* C38: the gRPC connection is free of deadlock: a task that holds both locks took
\* the stream before the client (no task that holds the client waits for the
\* stream), and in no interleaving of the re-attach of next_event, add_interface or
\* remove_interface and send_individual or send_object do tasks wait for one
\* another: a task that waits for a lock waits, directly or through another
\* waiting task, for a task that is not waiting.
C38_NoLockCycle ==
    /\ \A t \in ConnTasks : client = t => WaitsFor(t) # "stream"
    /\ \A t \in ConnTasks :
          Blocked(t) =>
              LET h == HolderOf(WaitsFor(t))
              IN ~Blocked(h) \/ ~Blocked(HolderOf(WaitsFor(h)))

\* the registry call holds the stream and waits for the client that the sender
\* holds, while the receive loop waits for the stream to re-attach
C38_Witness ==
    /\ at["registry"] = "lock_client"
    /\ stream = "registry"
    /\ client = "send"
    /\ at["receive"] = "reattach"
    /\ Blocked("registry")
    /\ Blocked("receive")

\* the two tasks sent different values on the same property and both returned Ok
BothSentOnOneProperty ==
    /\ \A t \in SenderTasks : at[t].pc = "done" /\ at[t].res = "ok"
    /\ at["s1"].path = at["s2"].path
    /\ at["s1"].data # at["s2"].data

\* C39: when two tasks send different values on the same device-owned property
\* concurrently and both sends have returned Ok, the value stored for the property
\* is the value of the publish that was made last.
C39_StoredIsLastPublished ==
    BothSentOnOneProperty =>
        /\ out # <<>>
        /\ \E r \in Row(store, NameA, at["s1"].path) :
              out[Len(out)].payload = PayloadToVec(r.value)

\* C40: what next_event takes for the purge topic, and how it parses a data topic,
\* depends only on the client id of the connection that received the publish: each
\* of two connections with different client ids in one process reconciles the
\* publishes on its own purge topic and parses the publishes on its own data
\* topics, whichever of them polled first.
C40_OwnClientIdOnly ==
    last.kind = "publish" =>
        /\ last.topic = PurgeTopicOf(last.name)
              => /\ out = <<LoadAllPropsCall>>
                 /\ res = "ok"
        /\ last.topic = DataTopicOf(last.name, NameB, PathE)
              => /\ res = "ok"
                 /\ tasks # <<>>
                 /\ tasks[Len(tasks)] = ReceivedEvent(NameB, PathE, last.payload)


====
